---- MODULE Spec2Model ----
(***************************************************************************)
(* Model of scrape.py: the three crawlers (products over HTML pagination,  *)
(* testimonials over HTMX fragment chaining, reviews over GraphQL cursor   *)
(* pagination) and the orchestrator main() that runs them in sequence and  *)
(* writes one JSON file per crawler.                                        *)
(*                                                                          *)
(* An action is one blocking I/O operation of the program (an HTTP request *)
(* or a file write) together with all the computation that follows it up   *)
(* to the next I/O operation.  The server's answer to a request is drawn    *)
(* from a bounded set of documents.                                         *)
(*                                                                          *)
(* Python's None is the empty tuple and a present value x is <<x>>, so an   *)
(* optional value is always a sequence of length at most one.               *)
(***************************************************************************)
EXTENDS Integers, Sequences, FiniteSets, TLC

VARIABLES
    pc,             \* the next I/O operation of the program
    per_category,   \* args.products_per_category
    sleep,          \* args.sleep (seconds)
    first,          \* args.reviews_first
    r_max_pages,    \* args.reviews_max_pages
    t_max_pages,    \* args.testimonials_max_pages
    start_i,        \* products: index of the current start URL in start_urls
    page,           \* products: the page number the loop fetches next
    total_pages,    \* products: total_pages of the current start URL
    products,       \* products: the result list
    seen_urls,      \* products: the seen set
    after,          \* reviews: the cursor of the next query
    out,            \* reviews: the result list
    all_items,      \* testimonials: every record parsed so far
    next_url,       \* testimonials: the next fragment URL, or None
    pages,          \* reviews / testimonials: the loop's page counter
    uniq,           \* testimonials: the deduplicated result list
    log,            \* every I/O operation performed, in order
    served,         \* every document the server answered with, in order
    error,          \* None, or the exception that ended the run
    files           \* the output files written by this run

vars == <<pc, per_category, sleep, first, r_max_pages, t_max_pages, start_i, page, total_pages,
          products, seen_urls, after, out, all_items, next_url, pages, uniq,
          log, served, error, files>>

-----------------------------------------------------------------------------
(* Bounds of the model *)

\* largest N of an "in N pages" paging summary the server sends
MaxTotalPages == 2
\* most product rows the server sends in one crawl of a single start URL
MaxProductRows == 3
\* most product rows the server sends in one crawl with category fan-out
MaxFanoutRows == 2
\* largest page cap the program is started with
MaxCap == 3
\* largest page cap main is started with
MaxMainCap == 2
\* most review edges the server sends in one crawl
MaxReviewEdges == 2
\* most testimonial cards the server sends in one crawl
MaxCards == 4

-----------------------------------------------------------------------------
(* Generic helpers *)

None == <<>>
Some(x) == <<x>>

\* Python truthiness of an optional string
Truthy(s) == s # ""

RECURSIVE Concat(_)
Concat(ss) == IF ss = <<>> THEN <<>> ELSE Head(ss) \o Concat(Tail(ss))

\* sequences over S of length at most n
SeqsUpTo(S, n) == UNION { [1..k -> S] : k \in 0..n }

-----------------------------------------------------------------------------
(* Text: Python str operations.  A string of the model is a Python str;   *)
(* positions count from 1, and position 0 stands for "not found".          *)

Char(s, i) == SubSeq(s, i, i)
\* s[i-1:] in Python's indexing
From(s, i) == SubSeq(s, i, Len(s))
CharsOf(s) == { Char(s, i) : i \in 1..Len(s) }

Least(S) == CHOOSE i \in S : \A j \in S : i <= j
Greatest(S) == CHOOSE i \in S : \A j \in S : i >= j

\* s.find(c, start) and s.rfind(c) for a one-character c
Find(s, c, start) ==
    LET hits == { i \in start..Len(s) : Char(s, i) = c }
    IN  IF hits = {} THEN 0 ELSE Least(hits)
RFind(s, c) ==
    LET hits == { i \in 1..Len(s) : Char(s, i) = c }
    IN  IF hits = {} THEN 0 ELSE Greatest(hits)
\* c in s
Contains(s, c) == \E i \in 1..Len(s) : Char(s, i) = c
\* s.startswith(p)
StartsWith(s, p) == Len(s) >= Len(p) /\ SubSeq(s, 1, Len(p)) = p
\* s.partition(c)[0] and s.partition(c)[2]: what precedes and what follows
\* the first c, all of s and "" when c is not in s
PartBefore(s, c) == IF Contains(s, c) THEN SubSeq(s, 1, Find(s, c, 1) - 1) ELSE s
PartAfter(s, c) == IF Contains(s, c) THEN From(s, Find(s, c, 1) + 1) ELSE ""

AsciiUpper == "ABCDEFGHIJKLMNOPQRSTUVWXYZ"
AsciiLower == "abcdefghijklmnopqrstuvwxyz"
AsciiDigits == "0123456789"
UpperChars == CharsOf(AsciiUpper)
Letters == CharsOf(AsciiUpper) \cup CharsOf(AsciiLower)
DigitChars == CharsOf(AsciiDigits)
HexChars == DigitChars \cup CharsOf("ABCDEFabcdef")

\* the white space of str.isspace() and of the pattern \s that a string
\* literal of the model can hold
Whitespace == {" ", "\t", "\n", "\r", "\f"}

\* s.lower()
RECURSIVE lower(_)
lower(s) ==
    IF s = "" THEN ""
    ELSE (IF Head(s) \in UpperChars THEN Char(AsciiLower, Find(AsciiUpper, Head(s), 1))
          ELSE Head(s)) \o lower(Tail(s))

\* s.lstrip(chars), s.rstrip(chars), s.strip(chars)
RECURSIVE lstrip(_, _)
lstrip(s, chars) == IF s # "" /\ Head(s) \in chars THEN lstrip(Tail(s), chars) ELSE s
RECURSIVE rstrip(_, _)
rstrip(s, chars) ==
    IF s # "" /\ Char(s, Len(s)) \in chars THEN rstrip(SubSeq(s, 1, Len(s) - 1), chars) ELSE s
strip(s, chars) == rstrip(lstrip(s, chars), chars)

\* s.replace(c, "") for every c of chars
RECURSIVE Remove(_, _)
Remove(s, chars) ==
    IF s = "" THEN ""
    ELSE (IF Head(s) \in chars THEN "" ELSE Head(s)) \o Remove(Tail(s), chars)

\* s.split(c)
RECURSIVE split(_, _)
split(s, c) ==
    IF Contains(s, c) THEN <<PartBefore(s, c)>> \o split(PartAfter(s, c), c) ELSE <<s>>

\* c.join(parts)
RECURSIVE join(_, _)
join(parts, c) ==
    IF parts = <<>> THEN ""
    ELSE IF Len(parts) = 1 THEN parts[1]
    ELSE parts[1] \o c \o join(Tail(parts), c)

\* s.isascii() and s.isdigit() / every character of s is one of chars
AllIn(s, chars) == \A i \in 1..Len(s) : Char(s, i) \in chars

\* int(s) of a non-empty run of ASCII digits
RECURSIVE int(_)
int(s) ==
    IF s = "" THEN 0
    ELSE 10 * int(SubSeq(s, 1, Len(s) - 1)) + (Find(AsciiDigits, Char(s, Len(s)), 1) - 1)

-----------------------------------------------------------------------------
(* URLs: urllib.parse *)

BASE_URL == "https://web-scraping.dev"

uses_relative ==
    {"", "ftp", "http", "gopher", "nntp", "imap", "wais", "file", "https", "shttp", "mms",
     "prospero", "rtsp", "rtsps", "rtspu", "sftp", "svn", "svn+ssh", "ws", "wss"}
uses_netloc ==
    {"", "ftp", "http", "gopher", "nntp", "telnet", "imap", "wais", "file", "mms", "https",
     "shttp", "snews", "prospero", "rtsp", "rtsps", "rtspu", "rsync", "svn", "svn+ssh", "sftp",
     "nfs", "git", "git+ssh", "ws", "wss"}
uses_params ==
    {"", "ftp", "hdl", "prospero", "http", "imap", "https", "shttp", "rtsp", "rtsps", "rtspu",
     "sip", "sips", "mms", "sftp", "tel"}
scheme_chars == Letters \cup DigitChars \cup {"+", "-", "."}

\* of the C0 control characters and the space, those a string literal of
\* the model can hold
WHATWG_C0_CONTROL_OR_SPACE == {"\t", "\n", "\f", "\r", " "}
UNSAFE_URL_BYTES_TO_REMOVE == {"\t", "\r", "\n"}

\* _splitnetloc(url, 2): the domain that follows "//" and the rest
splitnetloc(url) ==
    LET delim == Least(({ Find(url, c, 3) : c \in {"/", "?", "#"} } \ {0}) \cup {Len(url) + 1})
    IN  <<SubSeq(url, 3, delim - 1), From(url, delim)>>

\* urlsplit, after the netloc: url.split("#", 1) when "#" is in the url,
\* then url.split("?", 1) when "?" is in what precedes the "#"
urlsplit_rest(scheme, netloc, url) ==
    [scheme |-> scheme, netloc |-> netloc,
     path |-> PartBefore(PartBefore(url, "#"), "?"),
     query |-> PartAfter(PartBefore(url, "#"), "?"),
     fragment |-> PartAfter(url, "#")]

\* urlsplit, after the scheme:
\* if url[:2] == "//": netloc, url = _splitnetloc(url, 2)
urlsplit_netloc(scheme, url) ==
    urlsplit_rest(scheme,
                  IF StartsWith(url, "//") THEN splitnetloc(url)[1] ELSE "",
                  IF StartsWith(url, "//") THEN splitnetloc(url)[2] ELSE url)

\* urlsplit(url, scheme), when it does not raise: the scheme is what
\* precedes the first ":", when that starts with a letter and holds scheme
\* characters only
urlsplit(url, scheme) ==
    LET u == Remove(lstrip(url, WHATWG_C0_CONTROL_OR_SPACE), UNSAFE_URL_BYTES_TO_REMOVE)
        has_scheme == /\ Find(u, ":", 1) > 1
                      /\ Char(u, 1) \in Letters
                      /\ AllIn(PartBefore(u, ":"), scheme_chars)
    IN  urlsplit_netloc(
            IF has_scheme THEN lower(PartBefore(u, ":"))
            ELSE Remove(strip(scheme, WHATWG_C0_CONTROL_OR_SPACE), UNSAFE_URL_BYTES_TO_REMOVE),
            IF has_scheme THEN PartAfter(u, ":") ELSE u)

\* the octets of IPv4Address._ip_int_from_string are accepted
IsOctets(octets) ==
    /\ Len(octets) = 4
    /\ \A k \in 1..4 :
         /\ octets[k] # ""
         /\ AllIn(octets[k], DigitChars)
         /\ Len(octets[k]) <= 3
         /\ octets[k] = "0" \/ Head(octets[k]) # "0"
         /\ int(octets[k]) <= 255

\* IPv4Address(s) does not raise
IsIPv4(s) == IsOctets(split(s, "."))

\* IPv6Address._parse_hextet(s) does not raise
IsHextet(s) == s # "" /\ AllIn(s, HexChars) /\ Len(s) <= 4

\* the parts of IPv6Address._ip_int_from_string are hextets, with at most
\* one "::" that stands for at least one of the eight
IsHextets(parts) ==
    LET n == Len(parts)
        skips == { k \in 2..(n - 1) : parts[k] = "" }
    IN  /\ n <= 9
        /\ Cardinality(skips) <= 1
        /\ IF skips # {}
           THEN LET k == Least(skips)
                    parts_hi == IF parts[1] = "" THEN k - 2 ELSE k - 1
                    parts_lo == IF parts[n] = "" THEN n - k - 1 ELSE n - k
                IN  /\ parts[1] = "" => parts_hi = 0
                    /\ parts[n] = "" => parts_lo = 0
                    /\ 8 - (parts_hi + parts_lo) >= 1
                    /\ \A j \in 1..parts_hi : IsHextet(parts[j])
                    /\ \A j \in (n - parts_lo + 1)..n : IsHextet(parts[j])
           ELSE /\ n = 8
                /\ \A j \in 1..n : IsHextet(parts[j])

\* the parts of IPv6Address._ip_int_from_string are accepted; an IPv4 tail
\* is replaced by its two hextets
IsIPv6Parts(parts) ==
    /\ Len(parts) >= 3
    /\ Contains(parts[Len(parts)], ".") => IsIPv4(parts[Len(parts)])
    /\ IsHextets(IF Contains(parts[Len(parts)], ".")
                 THEN SubSeq(parts, 1, Len(parts) - 1) \o <<"0", "0">>
                 ELSE parts)

\* IPv6Address(address) does not raise; address.partition("%") splits the
\* scope id off
IsIPv6(address) ==
    /\ ~Contains(address, "/")
    /\ Contains(address, "%") =>
         (PartAfter(address, "%") # "" /\ ~Contains(PartAfter(address, "%"), "%"))
    /\ PartBefore(address, "%") # ""
    /\ IsIPv6Parts(split(PartBefore(address, "%"), ":"))

\* re.match(r"\Av[a-fA-F0-9]+\..+\Z", hostname): the "." of the pattern
\* matches any character but the newline
IsIPvFuture(hostname) ==
    LET dot == Find(hostname, ".", 1)
    IN  /\ StartsWith(hostname, "v")
        /\ dot > 2
        /\ AllIn(SubSeq(hostname, 2, dot - 1), HexChars)
        /\ dot < Len(hostname)
        /\ ~Contains(From(hostname, dot + 1), "\n")

\* _check_bracketed_host(hostname) raises ValueError
check_bracketed_host_raises(hostname) ==
    IF StartsWith(hostname, "v") THEN ~IsIPvFuture(hostname) ELSE ~IsIPv6(hostname)

\* the tests of the square brackets of the netloc in urlsplit raise
\* ValueError; the host is netloc.partition("[")[2].partition("]")[0]
urlsplit_netloc_raises(netloc) ==
    IF Contains(netloc, "[") # Contains(netloc, "]") THEN TRUE
    ELSE /\ Contains(netloc, "[")
         /\ check_bracketed_host_raises(PartBefore(PartAfter(netloc, "["), "]"))

\* urlsplit(url) raises ValueError (_checknetloc only concerns characters
\* outside ASCII)
urlsplit_raises(url) == urlsplit_netloc_raises(urlsplit(url, "").netloc)

\* _splitparams(url): without a "/", a url without ";" is cut at
\* url.find(";") = -1 all the same, into url[:-1] and url[0:]
splitparams(url) ==
    LET i == IF Contains(url, "/") THEN Find(url, ";", RFind(url, "/")) ELSE Find(url, ";", 1)
    IN  IF i > 0 THEN <<SubSeq(url, 1, i - 1), From(url, i + 1)>>
        ELSE IF Contains(url, "/") THEN <<url, "">>
        ELSE <<SubSeq(url, 1, Len(url) - 1), url>>

\* urlparse(url, scheme), when it does not raise
urlparse(url, scheme) ==
    LET Parsed(r) ==
            LET split_it == r.scheme \in uses_params /\ Contains(r.path, ";")
            IN  [scheme |-> r.scheme, netloc |-> r.netloc,
                 path |-> IF split_it THEN splitparams(r.path)[1] ELSE r.path,
                 params |-> IF split_it THEN splitparams(r.path)[2] ELSE "",
                 query |-> r.query, fragment |-> r.fragment]
    IN  Parsed(urlsplit(url, scheme))

\* urlunsplit((scheme, netloc, url, query, fragment))
urlunsplit(scheme, netloc, url, query, fragment) ==
    (IF scheme # "" THEN scheme \o ":" ELSE "")
    \o (IF netloc # "" \/ (scheme # "" /\ scheme \in uses_netloc /\ ~StartsWith(url, "//"))
        THEN "//" \o netloc \o (IF url # "" /\ ~StartsWith(url, "/") THEN "/" ELSE "") \o url
        ELSE url)
    \o (IF query # "" THEN "?" \o query ELSE "")
    \o (IF fragment # "" THEN "#" \o fragment ELSE "")

\* urlunparse((scheme, netloc, url, params, query, fragment))
urlunparse(scheme, netloc, url, params, query, fragment) ==
    urlunsplit(scheme, netloc, IF params # "" THEN url \o ";" \o params ELSE url,
               query, fragment)

\* the loop over segments of urljoin: ".." pops, "." is skipped
RECURSIVE Resolve(_, _)
Resolve(segments, resolved_path) ==
    IF segments = <<>> THEN resolved_path
    ELSE LET seg == Head(segments)
         IN  Resolve(Tail(segments),
                     IF seg = ".."
                     THEN SubSeq(resolved_path, 1, Len(resolved_path) - 1)
                     ELSE IF seg = "." THEN resolved_path
                     ELSE Append(resolved_path, seg))

\* urljoin(base, url) raises ValueError
urljoin_raises(base, url) ==
    base # "" /\ url # "" /\ (urlsplit_raises(base) \/ urlsplit_raises(url))

\* urljoin: "/".join(resolved_path) or "/", from the paths of the base and
\* of the url
urljoin_path(bpath, path) ==
    LET OrSlash(p) == IF p = "" THEN "/" ELSE p
        Resolved(segments) ==
            IF segments[Len(segments)] \in {".", ".."}
            THEN Append(Resolve(segments, <<>>), "") ELSE Resolve(segments, <<>>)
        \* segments[1:-1] = filter(None, segments[1:-1])
        Filter(segments) ==
            IF Len(segments) < 2 THEN segments
            ELSE <<segments[1]>>
                 \o SelectSeq(SubSeq(segments, 2, Len(segments) - 1), LAMBDA seg : seg # "")
                 \o <<segments[Len(segments)]>>
        \* if base_parts[-1] != "": del base_parts[-1]
        BaseParts(base_parts) ==
            IF base_parts[Len(base_parts)] # ""
            THEN SubSeq(base_parts, 1, Len(base_parts) - 1) ELSE base_parts
    IN  OrSlash(join(Resolved(IF StartsWith(path, "/") THEN split(path, "/")
                              ELSE Filter(BaseParts(split(bpath, "/")) \o split(path, "/"))),
                     "/"))

\* urljoin, from the parsed base b and the parsed url u
urljoin_parts(b, u, url) ==
    IF u.scheme # b.scheme \/ u.scheme \notin uses_relative THEN url
    ELSE IF u.scheme \in uses_netloc /\ u.netloc # ""
    THEN urlunparse(u.scheme, u.netloc, u.path, u.params, u.query, u.fragment)
    ELSE IF u.path = "" /\ u.params = ""
    THEN urlunparse(u.scheme, IF u.scheme \in uses_netloc THEN b.netloc ELSE u.netloc,
                    b.path, b.params, IF u.query = "" THEN b.query ELSE u.query, u.fragment)
    ELSE urlunparse(u.scheme, IF u.scheme \in uses_netloc THEN b.netloc ELSE u.netloc,
                    urljoin_path(b.path, u.path), u.params, u.query, u.fragment)

\* urljoin, from the parsed base b: the url is parsed with the scheme of
\* the base as its default
urljoin_parsed(b, url) == urljoin_parts(b, urlparse(url, b.scheme), url)

\* urljoin(base, url), when it does not raise
urljoin(base, url) ==
    IF base = "" THEN url
    ELSE IF url = "" THEN base
    ELSE urljoin_parsed(urlparse(base, ""), url)

-----------------------------------------------------------------------------
(* Numbers: float() and the paging pattern *)

\* the first position from i on whose character is not one of chars
RunEnd(s, i, chars) == Least({ k \in i..Len(s) : Char(s, k) \notin chars } \cup {Len(s) + 1})

\* A Python float: an IEEE 754 double, written as repr() writes it.  A
\* finite one is (-1)^neg * digits * 10^exp, where digits is the shortest
\* decimal that float() reads back as the same double, with no zero at
\* either end (zero has no digits); the others are the infinities and nan.
Finite(neg, digits, exp) == [kind |-> "finite", neg |-> neg, digits |-> digits, exp |-> exp]
Inf(neg) == [kind |-> "inf", neg |-> neg, digits |-> "", exp |-> 0]
NaN == [kind |-> "nan", neg |-> FALSE, digits |-> "", exp |-> 0]

\* Natural numbers beyond the machine word are tuples of decimal digits,
\* the most significant first, with no zero in front: the digits of a text
\* and the text of digits
DigitsOf(s) == [ i \in 1..Len(s) |-> Find(AsciiDigits, Char(s, i), 1) - 1 ]
TextOf(ds) == join([ i \in 1..Len(ds) |-> Char(AsciiDigits, ds[i] + 1) ], "")
Zeros(n) == [ i \in 1..n |-> 0 ]
DropZero(ds) == IF ds # <<>> /\ ds[1] = 0 THEN Tail(ds) ELSE ds

\* 2 * ds without the carry out of the first digit, and ds \div 2, digit
\* by digit
Double(ds) ==
    SubSeq([ i \in 1..Len(ds) |->
               ((2 * ds[i]) % 10) + (IF i < Len(ds) /\ ds[i + 1] >= 5 THEN 1 ELSE 0) ],
           1, Len(ds))
Halve(ds) ==
    SubSeq([ i \in 1..Len(ds) |->
               ((IF i > 1 THEN 10 * (ds[i - 1] % 2) ELSE 0) + ds[i]) \div 2 ],
           1, Len(ds))
\* ds + 1
Incr(ds) ==
    LET rest == { i \in 1..Len(ds) : ds[i] # 9 }
    IN  IF rest = {} THEN <<1>> \o Zeros(Len(ds))
        ELSE [ i \in 1..Len(ds) |->
                 IF i < Greatest(rest) THEN ds[i] ELSE IF i = Greatest(rest) THEN ds[i] + 1 ELSE 0 ]
\* a < b
Less(a, b) ==
    \/ Len(a) < Len(b)
    \/ /\ Len(a) = Len(b)
       /\ \E i \in 1..Len(a) : a[i] < b[i] /\ \A j \in 1..(i - 1) : a[j] = b[j]

\* A double is m * 2^e with m < 2^53 and e >= -1074, and m >= 2^52 unless
\* e = -1074; the largest has e = 971
Pow52 == DigitsOf("4503599627370496")
Pow53 == DigitsOf("9007199254740992")

\* Step applied to st until Done holds of it, 2^k times at most; 2^11 is
\* more than the doublings or the halvings that lead from one end of the
\* range of the doubles to the other
RECURSIVE Repeat(_, _, _, _)
Repeat(Step(_), Done(_), st, k) ==
    IF Done(st) THEN st
    ELSE IF k = 0 THEN Step(st)
    ELSE Repeat(Step, Done, Repeat(Step, Done, st, k - 1), k - 1)

\* whole.frac * 2^e, doubled until it is at least 2^52 or the exponent e is
\* the least one
ScaleUp(whole, frac) ==
    Repeat(LAMBDA st : [whole |-> DropZero(SubSeq(Double(<<0>> \o st.whole \o st.frac),
                                                  1, Len(st.whole) + 1)),
                        frac |-> Double(st.frac),
                        e |-> st.e - 1],
           LAMBDA st : st.e = -1074 \/ ~Less(st.whole, Pow52),
           [whole |-> whole, frac |-> frac, e |-> 0], 11)

\* the whole part m of the scaled up.whole.frac * 2^e, halved until it is
\* less than 2^53, with the bit that was shifted out last (at first, the
\* one of frac >= 0.5) and whether any bit below it was set
ScaleDown(up) ==
    Repeat(LAMBDA st : [m |-> DropZero(Halve(st.m)),
                        e |-> st.e + 1,
                        round |-> (st.m[Len(st.m)] % 2) = 1,
                        sticky |-> st.sticky \/ st.round],
           LAMBDA st : Less(st.m, Pow53),
           [m |-> up.whole, e |-> up.e,
            round |-> up.frac # <<>> /\ up.frac[1] >= 5,
            sticky |-> \E i \in 1..Len(up.frac) :
                          IF i = 1 THEN up.frac[1] \notin {0, 5} ELSE up.frac[i] # 0],
           11)

\* round to nearest, ties to even; past the largest double the result is
\* an infinity
RoundEven(r) ==
    LET odd == r.m # <<>> /\ r.m[Len(r.m)] % 2 = 1
        m == IF r.round /\ (r.sticky \/ odd) THEN Incr(r.m) ELSE r.m
    IN  IF m = <<>> THEN [kind |-> "zero"]
        ELSE IF r.e > 971 \/ (r.e = 971 /\ m = Pow53) THEN [kind |-> "inf"]
        ELSE IF m = Pow53 THEN [kind |-> "finite", m |-> Pow52, e |-> r.e + 1]
        ELSE [kind |-> "finite", m |-> m, e |-> r.e]

\* the double nearest to ds * 10^exp, for ds > 0: what is at least 1e309
\* is past the largest double, and what is less than 1e-324 is less than
\* half of the least one
Nearest(ds, exp) ==
    IF Len(ds) + exp > 309 THEN [kind |-> "inf"]
    ELSE IF Len(ds) + exp < -323 THEN [kind |-> "zero"]
    ELSE RoundEven(ScaleDown(ScaleUp(
             IF exp >= 0 THEN ds \o Zeros(exp)
             ELSE IF Len(ds) + exp <= 0 THEN <<>>
             ELSE SubSeq(ds, 1, Len(ds) + exp),
             IF exp >= 0 THEN <<>>
             ELSE IF Len(ds) + exp <= 0 THEN Zeros(0 - exp - Len(ds)) \o ds
             ELSE SubSeq(ds, Len(ds) + exp + 1, Len(ds)))))

\* the decimal ds * 10^exp that is m * 2^e
Exact(m, e) ==
    Repeat(LAMBDA st : IF st.e > 0
                       THEN [ds |-> DropZero(Double(<<0>> \o st.ds)), e |-> st.e - 1,
                             exp |-> st.exp]
                       ELSE IF st.ds[Len(st.ds)] % 2 = 0
                       THEN [ds |-> DropZero(Halve(st.ds)), e |-> st.e + 1, exp |-> st.exp]
                       ELSE [ds |-> DropZero(Halve(st.ds \o <<0>>)), e |-> st.e + 1,
                             exp |-> st.exp - 1],
           LAMBDA st : st.e = 0,
           [ds |-> m, e |-> e, exp |-> 0], 11)

\* the decimal of n digits next to x, below it or above it
Decimal(x, n, above) ==
    [ds |-> IF above THEN Incr(SubSeq(x.ds, 1, n)) ELSE SubSeq(x.ds, 1, n),
     exp |-> x.exp + (Len(x.ds) - n)]
\* float() reads the decimal c as the double d
Reads(c, d) == Nearest(c.ds, c.exp) = d
\* the least n from lo to hi for which a decimal of n digits next to x is
\* read as d; one that is read as d lies between x and a decimal of fewer
\* digits that is read as d
RECURSIVE Fewest(_, _, _, _)
Fewest(x, d, lo, hi) ==
    IF lo >= hi THEN lo
    ELSE IF \E above \in BOOLEAN : Reads(Decimal(x, (lo + hi) \div 2, above), d)
    THEN Fewest(x, d, lo, (lo + hi) \div 2)
    ELSE Fewest(x, d, (lo + hi) \div 2 + 1, hi)

\* the choice between the decimals of n digits next to x, from the set
\* read of those (FALSE: below x, TRUE: above x) that are read as the
\* double of x: the one above when the one below is not read, or when both
\* are and the one above is nearer to x, or as near and even
Nearer(x, n, read) ==
    LET rest == SubSeq(x.ds, n + 1, Len(x.ds))
        half == <<5>> \o Zeros(Len(rest) - 1)
    IN  Decimal(x, n,
                \/ FALSE \notin read
                \/ /\ TRUE \in read
                   /\ rest # <<>>
                   /\ \/ Less(half, rest)
                      \/ rest = half /\ x.ds[n] % 2 = 1)

\* the decimal of n digits that is read as d and is the nearest to x
NearestOf(x, d, n) ==
    Nearer(x, n, { above \in BOOLEAN : Reads(Decimal(x, n, above), d) })

\* the finite float of the decimal c, without the zeros at its end
Shown(neg, c) ==
    LET last == Greatest({ i \in 1..Len(c.ds) : c.ds[i] # 0 })
    IN  Finite(neg, TextOf(SubSeq(c.ds, 1, last)), c.exp + (Len(c.ds) - last))

\* repr() of the double d that is the decimal x: the shortest decimal that
\* is read as d, of 17 digits at most
Shortest(neg, d, x) ==
    Shown(neg, NearestOf(x, d, Fewest(x, d, 1, IF Len(x.ds) < 17 THEN Len(x.ds) ELSE 17)))

\* the float of the double d
FloatOf(neg, d) ==
    IF d.kind = "inf" THEN Inf(neg)
    ELSE IF d.kind = "zero" THEN Finite(neg, "", 0)
    ELSE Shortest(neg, d, Exact(d.m, d.e))

\* the float nearest to the decimal digits * 10^exp
Normal(neg, digits, exp) ==
    LET d1 == lstrip(digits, {"0"})
        d2 == rstrip(d1, {"0"})
    IN  IF d2 = "" THEN Finite(neg, "", 0)
        ELSE FloatOf(neg, Nearest(DigitsOf(d2), exp + (Len(d1) - Len(d2))))

\* the parts of a float literal without its sign: its mantissa and its
\* exponent on either side of the first "e"
FloatMantissa(neg, body) ==
    LET mant == PartBefore(lower(body), "e")
        expo == PartAfter(lower(body), "e")
        esigned == expo # "" /\ Head(expo) \in {"+", "-"}
    IN  [neg |-> neg,
         body |-> lower(body),
         has_exp |-> Contains(lower(body), "e"),
         int_part |-> PartBefore(mant, "."),
         frac_part |-> PartAfter(mant, "."),
         exp_neg |-> esigned /\ Head(expo) = "-",
         exp_digits |-> IF esigned THEN Tail(expo) ELSE expo]

\* the parts of a float literal t: its sign and the rest
FloatSign(t) ==
    IF t # "" /\ Head(t) \in {"+", "-"} THEN FloatMantissa(Head(t) = "-", Tail(t))
    ELSE FloatMantissa(FALSE, t)

\* the parts of the text of a float literal: the text without the white
\* space around it and without its underscores
FloatParts(s) == FloatSign(Remove(strip(s, Whitespace), {"_"}))

\* float() raises ValueError on the text t with the parts p: an underscore
\* that is not between two digits, or a text that is neither inf, infinity,
\* nan nor a decimal literal with at least one digit and, after an "e", an
\* exponent
FloatRejects(t, p) ==
    \/ \E i \in 1..Len(t) :
         /\ Char(t, i) = "_"
         /\ ~(i > 1 /\ i < Len(t)
              /\ Char(t, i - 1) \in DigitChars /\ Char(t, i + 1) \in DigitChars)
    \/ /\ p.body \notin {"inf", "infinity", "nan"}
       /\ \/ ~AllIn(p.int_part, DigitChars)
          \/ ~AllIn(p.frac_part, DigitChars)
          \/ p.int_part \o p.frac_part = ""
          \/ p.has_exp /\ (p.exp_digits = "" \/ ~AllIn(p.exp_digits, DigitChars))

\* float(s) raises ValueError
float_raises(s) == FloatRejects(strip(s, Whitespace), FloatParts(s))

\* the exponent of a float literal: 1100000000 stands for one of more
\* than nine digits after its zeros, and for any greater one
Exponent(exp_digits) ==
    IF Len(lstrip(exp_digits, {"0"})) > 9 THEN 1100000000
    ELSE IF int(lstrip(exp_digits, {"0"})) > 1100000000 THEN 1100000000
    ELSE int(lstrip(exp_digits, {"0"}))

\* the float of the parts p of a literal
FloatValue(p) ==
    IF p.body \in {"inf", "infinity"} THEN Inf(p.neg)
    ELSE IF p.body = "nan" THEN NaN
    ELSE Normal(p.neg, p.int_part \o p.frac_part,
                (IF p.exp_neg THEN 0 - Exponent(p.exp_digits) ELSE Exponent(p.exp_digits))
                - Len(p.frac_part))

\* float(s), when it does not raise
float(s) == FloatValue(FloatParts(s))

\* float(price_txt) guarded by try/except: None when float() raises
ParsePrice(price_txt) ==
    IF float_raises(price_txt) THEN None ELSE Some(float(price_txt))

\* sys.get_int_max_str_digits(): int() raises ValueError on a longer text
int_max_str_digits == 4300

\* the pattern matches with "in" at position i, the digits from position d,
\* the white space after them from position g and "pages" from position p
PatternMatches(text, i, d, g, p) ==
    /\ lower(SubSeq(text, i, i + 1)) = "in"
    /\ d > i + 2
    /\ g > d
    /\ p > g
    /\ p + 4 <= Len(text)
    /\ lower(SubSeq(text, p, p + 4)) = "pages"

\* int(m.group(1)) guarded by try/except, for the digits from position d
GroupNumber(text, d) ==
    IF RunEnd(text, d, DigitChars) - d > int_max_str_digits THEN None
    ELSE Some(int(SubSeq(text, d, RunEnd(text, d, DigitChars) - 1)))

\* re.search(r"in\s+(\d+)\s+pages", text, re.IGNORECASE) followed by
\* int(m.group(1)) guarded by try/except: the number of the leftmost match,
\* or None
SearchInPages(text) ==
    LET DigitsAt(i) == RunEnd(text, i + 2, Whitespace)
        GapAt(d) == RunEnd(text, d, DigitChars)
        PagesAt(g) == RunEnd(text, g, Whitespace)
        hits == { i \in 1..(Len(text) - 1) :
                    PatternMatches(text, i, DigitsAt(i), GapAt(DigitsAt(i)),
                                   PagesAt(GapAt(DigitsAt(i)))) }
    IN  IF hits = {} THEN None ELSE GroupNumber(text, DigitsAt(Least(hits)))

-----------------------------------------------------------------------------
(* The texts of the documents of the model.  What urljoin, float and the   *)
(* paging pattern make of them is computed once and looked up; any other   *)
(* text is parsed on the spot.                                              *)

\* the text "<before> in N pages" of a div.paging-meta node
PagingSummary(before, k) == before \o " in " \o ToString(k) \o " pages"

\* the texts a div.paging-meta node can hold: with the phrase "in N pages"
\* or without it
MetaTexts ==
    { PagingSummary("results", k) : k \in {0, MaxTotalPages} } \cup { "no results" }

\* the href, src and hx-get attributes
DocumentRefs ==
    { "/product/1", "product/1", "/product/2", "/Product/1",
      "https://web-scraping.dev/product/1",
      "/1.png", "https://cdn.example/1.png",
      "/api/testimonials?page=2", "https://web-scraping.dev/api/testimonials?page=2",
      "//[x" }

\* the texts of div.price
PriceTexts == { "", "9.99", "10", "abc" }

Joins == [ ref \in DocumentRefs |-> urljoin(BASE_URL, ref) ]
JoinErrors == { ref \in DocumentRefs : urljoin_raises(BASE_URL, ref) }
Prices == [ price_txt \in PriceTexts |-> ParsePrice(price_txt) ]
\* the texts of div.paging-meta
PagingTexts == MetaTexts \cup {PagingSummary("page 1 of total 28 results", 2)}

Totals == [ text \in PagingTexts |-> SearchInPages(text) ]

\* urljoin(BASE_URL, ref) and whether it raises
JoinBase(ref) == IF ref \in DocumentRefs THEN Joins[ref] ELSE urljoin(BASE_URL, ref)
JoinBaseRaises(ref) ==
    IF ref \in DocumentRefs THEN ref \in JoinErrors ELSE urljoin_raises(BASE_URL, ref)
\* ParsePrice(price_txt)
PriceOf(price_txt) ==
    IF price_txt \in PriceTexts THEN Prices[price_txt] ELSE ParsePrice(price_txt)
\* SearchInPages(text)
TotalIn(text) == IF text \in PagingTexts THEN Totals[text] ELSE SearchInPages(text)

-----------------------------------------------------------------------------
(* PRODUCTS: the documents *)

\* soup.select_one("div.paging-meta"): absent, or its text
MetaNodes == {None} \cup { Some(t) : t \in MetaTexts }

\* A div.row.product node: its "h3 a" (text and href attribute), div.price,
\* div.short-description and "div.thumbnail img" (src attribute) sub-nodes.
ProductRow(a, price, desc, img) == [a |-> a, price |-> price, desc |-> desc, img |-> img]
Anchor(text, href) == Some([text |-> text, href |-> href])
Img(src) == Some([src |-> src])

ProductRows ==
    { ProductRow(Anchor("A", Some("/product/1")), Some("9.99"), Some("d"), Img(Some("/1.png"))),
      ProductRow(Anchor("B", Some("https://web-scraping.dev/product/1")), None, None, None),
      ProductRow(Anchor("C", Some("/Product/1")), Some("10"), None, Img(None)),
      ProductRow(None, Some("abc"), Some(""), Img(Some("https://cdn.example/1.png"))) }

\* an HTML listing page: its product rows and its paging-summary node
ProductDoc(rows, meta) == [rows |-> rows, meta |-> meta]

-----------------------------------------------------------------------------
(* PRODUCTS: parsing *)

\* the body of the loop of parse_products_from_page: one row to one record
ParseProductRow(row) ==
    LET name == IF row.a # None THEN row.a[1].text ELSE ""
        href == IF row.a # None /\ row.a[1].href # None THEN row.a[1].href[1] ELSE ""
        url  == IF Truthy(href) THEN JoinBase(href) ELSE ""
        price_txt == IF row.price # None THEN row.price[1] ELSE ""
        short_description == IF row.desc # None THEN row.desc[1] ELSE ""
        src  == IF row.img # None /\ row.img[1].src # None THEN row.img[1].src[1] ELSE ""
        image == IF Truthy(src) THEN JoinBase(src) ELSE ""
    IN  [name |-> name, url |-> url, price |-> PriceOf(price_txt),
         short_description |-> short_description, image |-> image]

\* urljoin raises ValueError in the body of the loop, which does not
\* catch it
ParseProductRowRaises(row) ==
    LET href == IF row.a # None /\ row.a[1].href # None THEN row.a[1].href[1] ELSE ""
        src  == IF row.img # None /\ row.img[1].src # None THEN row.img[1].src[1] ELSE ""
    IN  \/ Truthy(href) /\ JoinBaseRaises(href)
        \/ Truthy(src) /\ JoinBaseRaises(src)

\* parse_products_from_page(html) raises ValueError
parse_products_from_page_raises(html) ==
    \E i \in DOMAIN html.rows : ParseProductRowRaises(html.rows[i])

\* parse_products_from_page(html), when it does not raise
parse_products_from_page(html) ==
    [ i \in DOMAIN html.rows |-> ParseProductRow(html.rows[i]) ]

find_total_pages_products(html) ==
    IF html.meta = None THEN None ELSE TotalIn(html.meta[1])

\* "x or 1" taken as "1 if x is None else x"
OrOne_NoneOnly(x) == IF x = None THEN 1 ELSE x[1]

\* Python's "x or 1" on an Optional[int]
OrOne(x) == IF x = None \/ x = Some(0) THEN 1 ELSE x[1]

-----------------------------------------------------------------------------
(* I/O operations and server answers *)

\* session.get(url, headers=...) / session.post(url, json=payload, headers=...)
\* (by names the function that performs the operation)
Get(by, url, headers) ==
    [by |-> by, op |-> "GET", url |-> url, headers |-> headers, payload |-> None]
\* post_json: the headers h are the two JSON headers updated with the
\* headers of the caller, whose keys win
Post(by, url, headers, payload) ==
    LET json_headers == { <<"Content-Type", "application/json">>,
                          <<"Accept", "application/json">> }
        h == { kv \in json_headers : \A o \in headers : o[1] # kv[1] } \cup headers
    IN  [by |-> by, op |-> "POST", url |-> url, headers |-> h, payload |-> Some(payload)]
\* time.sleep(sleep)
Sleep(by) == [by |-> by, op |-> "SLEEP", url |-> "", headers |-> {}, payload |-> None]
\* save_json(path, data)
Write(path) == [by |-> "main", op |-> "WRITE", url |-> path, headers |-> {}, payload |-> None]

\* a 2xx answer with its document, or a non-2xx answer
Ok(crawler, doc) == [crawler |-> crawler, ok |-> TRUE, doc |-> Some(doc)]
NotOk(crawler) == [crawler |-> crawler, ok |-> FALSE, doc |-> None]

\* resp.raise_for_status() on a non-2xx answer
HTTPError == [type |-> "HTTPError", msg |-> "status", payload |-> None]

\* urlsplit on a netloc whose square brackets it rejects
ValueError == [type |-> "ValueError", msg |-> "urlsplit", payload |-> None]

-----------------------------------------------------------------------------
(* PRODUCTS: the crawler *)

StartUrl(query) == [path |-> "/products", query |-> query]

\* start_urls of scrape_products_html
start_urls(per_cat) ==
    IF per_cat
    THEN << StartUrl(""), StartUrl("category=apparel"),
            StartUrl("category=consumables"), StartUrl("category=household") >>
    ELSE << StartUrl("") >>

\* the URL string of a start URL
UrlOf(start) ==
    BASE_URL \o start.path \o (IF start.query = "" THEN "" ELSE "?" \o start.query)

\* f"{start}{joiner}page={page}" with joiner = "&" if "?" in start else "?"
PageUrl(start, p) ==
    LET joiner == IF start.query # "" THEN "&" ELSE "?"
    IN  UrlOf(start) \o joiner \o "page=" \o ToString(p)

\* the merge with a seen set that is consulted but never filled
RECURSIVE MergeItems_NoAdd(_, _, _)
MergeItems_NoAdd(items, prods, seen) ==
    IF items = <<>> THEN [products |-> prods, seen_urls |-> seen]
    ELSE LET it == Head(items)
         IN  IF Truthy(it.url) /\ it.url \in seen
             THEN MergeItems_NoAdd(Tail(items), prods, seen)
             ELSE MergeItems_NoAdd(Tail(items), Append(prods, it), seen)

\* the merge without the tests of "if it["url"]": the empty URL is looked
\* up in the seen set and added to it like any other
RECURSIVE MergeItems_EmptyUrlSeen(_, _, _)
MergeItems_EmptyUrlSeen(items, prods, seen) ==
    IF items = <<>> THEN [products |-> prods, seen_urls |-> seen]
    ELSE LET it == Head(items)
         IN  IF it.url \in seen
             THEN MergeItems_EmptyUrlSeen(Tail(items), prods, seen)
             ELSE MergeItems_EmptyUrlSeen(Tail(items), Append(prods, it), seen \cup {it.url})

\* the loop over page_items of scrape_products_html: merge one page's items
\* into the result list and the seen set
RECURSIVE MergeItems(_, _, _)
MergeItems(items, prods, seen) ==
    IF items = <<>> THEN [products |-> prods, seen_urls |-> seen]
    ELSE LET it == Head(items)
         IN  IF Truthy(it.url) /\ it.url \in seen
             THEN MergeItems(Tail(items), prods, seen)
             ELSE MergeItems(Tail(items), Append(prods, it),
                             IF Truthy(it.url) THEN seen \cup {it.url} ELSE seen)

\* the documents of the product answers so far that the parser accepted,
\* in fetch order
ProductDocs ==
    LET ans == SelectSeq(served, LAMBDA a : /\ a.crawler = "products" /\ a.ok
                                            /\ ~parse_products_from_page_raises(a.doc[1]))
    IN  [ i \in DOMAIN ans |-> ans[i].doc[1] ]

\* every item extracted so far, in fetch order
Fetched ==
    LET docs == ProductDocs
    IN  Concat([ i \in DOMAIN docs |-> parse_products_from_page(docs[i]) ])

\* the listing pages the server can answer with, when it sends at most
\* budget rows in one crawl
ProductAnswers(metas, budget) ==
    { ProductDoc(rows, meta) :
        rows \in SeqsUpTo(ProductRows, budget - Len(Fetched)), meta \in metas }

\* a page loop over range(1, total_pages), which stops one page early
ProdAdvance_StopEarly(p, total) ==
    IF p < total - 1
    THEN /\ pc' = "p_page"
         /\ page' = p + 1
         /\ start_i' = start_i
    ELSE /\ page' = 1
         /\ IF start_i < Len(start_urls(per_category))
            THEN pc' = "p_first" /\ start_i' = start_i + 1
            ELSE pc' = "p_save" /\ start_i' = start_i

\* what follows the processing of page p of the current start URL, whose
\* total is total: the next page, the next start URL, or the return
ProdAdvance(p, total) ==
    IF p < total
    THEN /\ pc' = "p_page"
         /\ page' = p + 1
         /\ start_i' = start_i
    ELSE /\ page' = 1
         /\ IF start_i < Len(start_urls(per_category))
            THEN pc' = "p_first" /\ start_i' = start_i + 1
            ELSE pc' = "p_save" /\ start_i' = start_i

\* the crawler whose code runs at the program position p
CrawlerAt(p) ==
    CASE p \in {"p_first", "p_page", "p_save"} -> "products"
      [] p \in {"t_init", "t_frag", "t_save"} -> "testimonials"
      [] p \in {"r_query", "r_save"} -> "reviews"
      [] OTHER -> "main"

\* an exception that is logged, after which main goes on with the crawler
\* that comes next
Raise_Continue(exc) ==
    /\ pc' = CASE CrawlerAt(pc) = "products" -> "t_init"
               [] CrawlerAt(pc) = "testimonials" -> "r_query"
               [] OTHER -> "failed"
    /\ error' = Some(exc)

\* an exception that is swallowed by the crawler, which returns what it has
Raise_ReturnPartial(exc) ==
    /\ pc' = CASE CrawlerAt(pc) = "products" -> "p_save"
               [] CrawlerAt(pc) = "testimonials" -> "t_save"
               [] OTHER -> "r_save"
    /\ error' = Some(exc)

\* an exception nobody catches ends the process
Raise(exc) ==
    /\ pc' = "failed"
    /\ error' = Some(exc)

\* the first page of a start URL merged against a seen set of its own
ProdFirst_SeenPerStart(docs) ==
    /\ pc = "p_first"
    /\ LET start == start_urls(per_category)[start_i]
       IN  /\ log' = Append(log, Get("products", UrlOf(start), {<<"Referer", BASE_URL>>}))
           /\ \/ /\ served' = Append(served, NotOk("products"))
                 /\ Raise(HTTPError)
                 /\ UNCHANGED <<start_i, page, total_pages, products, seen_urls>>
              \/ \E first_html \in docs :
                   /\ served' = Append(served, Ok("products", first_html))
                   /\ IF parse_products_from_page_raises(first_html)
                      THEN /\ Raise(ValueError)
                           /\ UNCHANGED <<start_i, page, total_pages, products, seen_urls>>
                      ELSE LET total == OrOne(find_total_pages_products(first_html))
                               m == MergeItems(parse_products_from_page(first_html),
                                               products, {})
                           IN  /\ total_pages' = total
                               /\ products' = m.products
                               /\ seen_urls' = m.seen_urls
                               /\ ProdAdvance(1, total)
                               /\ UNCHANGED error
    /\ UNCHANGED <<per_category, sleep, first, r_max_pages, t_max_pages,
                   after, out, all_items, next_url, pages, uniq, files>>

\* scrape_products_html, for one start URL: the request of the start URL,
\* the total, and the processing of page 1 from the same document
ProdFirst(docs) ==
    /\ pc = "p_first"
    /\ LET start == start_urls(per_category)[start_i]
       IN  /\ log' = Append(log, Get("products", UrlOf(start), {<<"Referer", BASE_URL>>}))
           /\ \/ /\ served' = Append(served, NotOk("products"))
                 /\ Raise(HTTPError)
                 /\ UNCHANGED <<start_i, page, total_pages, products, seen_urls>>
              \/ \E first_html \in docs :
                   /\ served' = Append(served, Ok("products", first_html))
                   /\ IF parse_products_from_page_raises(first_html)
                      THEN /\ Raise(ValueError)
                           /\ UNCHANGED <<start_i, page, total_pages, products, seen_urls>>
                      ELSE LET total == OrOne(find_total_pages_products(first_html))
                               m == MergeItems(parse_products_from_page(first_html),
                                               products, seen_urls)
                           IN  /\ total_pages' = total
                               /\ products' = m.products
                               /\ seen_urls' = m.seen_urls
                               /\ ProdAdvance(1, total)
                               /\ UNCHANGED error
    /\ UNCHANGED <<per_category, sleep, first, r_max_pages, t_max_pages,
                   after, out, all_items, next_url, pages, uniq, files>>

\* scrape_products_html, pages 2..total_pages of a start URL
ProdPage(docs) ==
    /\ pc = "p_page"
    /\ LET start == start_urls(per_category)[start_i]
           get == Get("products", PageUrl(start, page), {<<"Referer", UrlOf(start)>>})
       IN  \/ /\ log' = Append(log, get)
              /\ served' = Append(served, NotOk("products"))
              /\ Raise(HTTPError)
              /\ UNCHANGED <<start_i, page, products, seen_urls>>
           \/ \E html \in docs :
                /\ log' = IF sleep # 0 THEN log \o <<get, Sleep("products")>> ELSE Append(log, get)
                /\ served' = Append(served, Ok("products", html))
                /\ IF parse_products_from_page_raises(html)
                   THEN /\ Raise(ValueError)
                        /\ UNCHANGED <<start_i, page, products, seen_urls>>
                   ELSE LET m == MergeItems(parse_products_from_page(html), products, seen_urls)
                        IN  /\ products' = m.products
                            /\ seen_urls' = m.seen_urls
                            /\ ProdAdvance(page, total_pages)
                            /\ UNCHANGED error
    /\ UNCHANGED <<per_category, sleep, first, r_max_pages, t_max_pages, total_pages,
                   after, out, all_items, next_url, pages, uniq, files>>

-----------------------------------------------------------------------------
(* REVIEWS: the documents *)

\* a node of the GraphQL answer: dict.get gives None for a key that is
\* missing and for a key that holds null
ReviewNode(rid, date, rating, text) ==
    [rid |-> rid, date |-> date, rating |-> rating, text |-> text]

ReviewNodes ==
    { ReviewNode(Some("r1"), Some("2023-01-01"), Some(5), Some("good")),
      ReviewNode(Some("r1"), None, None, Some("bad")),
      ReviewNode(None, Some("2023-02-02"), Some(1), None) }

\* an element of "edges": null, or an object whose "node" is null or a node
ReviewEdges == { None, Some(None) } \cup { Some(Some(n)) : n \in ReviewNodes }

\* "pageInfo": hasNextPage (missing counts as false) and endCursor
PageInfo(hasNextPage, endCursor) == [hasNextPage |-> hasNextPage, endCursor |-> endCursor]
PageInfos ==
    { PageInfo(FALSE, None) } \cup { PageInfo(TRUE, c) : c \in {None, Some("c1"), Some("c2")} }

\* the JSON body of an answer: "errors" (missing, null and [] are the empty
\* list) and "data", which is null or holds reviews.edges and reviews.pageInfo
ReviewDoc(errors, data) == [errors |-> errors, data |-> data]
ReviewData(edges, page_info) == Some([edges |-> edges, pageInfo |-> page_info])

-----------------------------------------------------------------------------
(* REVIEWS: the crawler *)

\* raise RuntimeError(f"GraphQL errors: {data['errors']}")
GraphQLError(errors) == [type |-> "RuntimeError", msg |-> "GraphQL errors", payload |-> Some(errors)]

\* None.get("reviews", {}) when "data" holds null
AttributeError == [type |-> "AttributeError", msg |-> "get", payload |-> None]

\* a reading of "errors" that never finds any
HasErrors_Never(data) == FALSE

\* "errors" in data and data["errors"]
HasErrors(data) == data.errors # <<>>

\* a reading of pageInfo that always finds a next page
HasNextPage_Always(page_info) == TRUE

\* page_info.get("hasNextPage")
HasNextPage(page_info) == page_info.hasNextPage

\* the record appended for one edge
ReviewRecord(edge) ==
    LET node == IF edge # None /\ edge[1] # None THEN edge[1][1]
                ELSE ReviewNode(None, None, None, None)
    IN  [rid |-> node.rid, date |-> node.date, rating |-> node.rating, text |-> node.text]

\* the loop over edges of scrape_reviews_graphql
ReviewRecords(edges) == [ i \in DOMAIN edges |-> ReviewRecord(edges[i]) ]

\* a payload that never carries the cursor
ReviewPayload_NoCursor(n, cursor) == [query |-> "REVIEWS_QUERY", first |-> n, after |-> None]

\* the payload of a query
ReviewPayload(n, cursor) == [query |-> "REVIEWS_QUERY", first |-> n, after |-> cursor]

\* the documents of the review answers so far, in order
ReviewDocs ==
    LET ans == SelectSeq(served, LAMBDA a : a.crawler = "reviews" /\ a.ok)
    IN  [ i \in DOMAIN ans |-> ans[i].doc[1] ]

\* the number of edges the server has sent so far
EdgesSent ==
    LET docs == ReviewDocs
    IN  Len(Concat([ i \in DOMAIN docs |->
                       IF docs[i].data = None THEN <<>> ELSE docs[i].data[1].edges ]))

\* the JSON bodies the server can answer with, when it sends at most budget
\* edges in one crawl and a pageInfo of infos
ReviewAnswers(budget, infos) ==
    { ReviewDoc(<<>>, ReviewData(edges, pi)) :
        edges \in SeqsUpTo(ReviewEdges, budget - EdgesSent), pi \in infos }
    \cup { ReviewDoc(<<"syntax error">>, None),
           ReviewDoc(<<"partial">>, ReviewData(<<None>>, PageInfo(TRUE, Some("c1")))),
           ReviewDoc(<<>>, None) }

\* an iteration that tests the cap before it counts the page
RevQuery_TestBeforeCount(docs) ==
    /\ pc = "r_query"
    /\ pages' = pages + 1
    /\ \/ /\ pages > r_max_pages
          /\ pc' = "r_save"
          /\ UNCHANGED <<log, served, after, out, error>>
       \/ /\ pages <= r_max_pages
          /\ LET post == Post("reviews", BASE_URL \o "/api/graphql",
                              {<<"Referer", BASE_URL \o "/reviews">>},
                              ReviewPayload(first, after))
             IN  \/ /\ log' = Append(log, post)
                    /\ served' = Append(served, NotOk("reviews"))
                    /\ Raise(HTTPError)
                    /\ UNCHANGED <<after, out>>
                 \/ \E data \in docs :
                      /\ served' = Append(served, Ok("reviews", data))
                      /\ IF HasErrors(data)
                         THEN /\ Raise(GraphQLError(data.errors))
                              /\ log' = Append(log, post)
                              /\ UNCHANGED <<after, out>>
                         ELSE IF data.data = None
                         THEN /\ Raise(AttributeError)
                              /\ log' = Append(log, post)
                              /\ UNCHANGED <<after, out>>
                         ELSE LET reviews == data.data[1]
                                  page_info == reviews.pageInfo
                              IN  /\ out' = out \o ReviewRecords(reviews.edges)
                                  /\ UNCHANGED error
                                  /\ IF ~HasNextPage(page_info)
                                     THEN /\ pc' = "r_save"
                                          /\ log' = Append(log, post)
                                          /\ UNCHANGED after
                                     ELSE /\ pc' = "r_query"
                                          /\ after' = page_info.endCursor
                                          /\ log' = IF sleep # 0
                                                    THEN log \o <<post, Sleep("reviews")>>
                                                    ELSE Append(log, post)
    /\ UNCHANGED <<per_category, sleep, first, r_max_pages, t_max_pages, start_i, page,
                   total_pages, products, seen_urls, all_items, next_url, uniq, files>>

\* one iteration of the loop of scrape_reviews_graphql
RevQuery(docs) ==
    /\ pc = "r_query"
    /\ pages' = pages + 1
    /\ \/ /\ pages + 1 > r_max_pages
          /\ pc' = "r_save"
          /\ UNCHANGED <<log, served, after, out, error>>
       \/ /\ pages + 1 <= r_max_pages
          /\ LET post == Post("reviews", BASE_URL \o "/api/graphql",
                              {<<"Referer", BASE_URL \o "/reviews">>},
                              ReviewPayload(first, after))
             IN  \/ /\ log' = Append(log, post)
                    /\ served' = Append(served, NotOk("reviews"))
                    /\ Raise(HTTPError)
                    /\ UNCHANGED <<after, out>>
                 \/ \E data \in docs :
                      /\ served' = Append(served, Ok("reviews", data))
                      /\ IF HasErrors(data)
                         THEN /\ Raise(GraphQLError(data.errors))
                              /\ log' = Append(log, post)
                              /\ UNCHANGED <<after, out>>
                         ELSE IF data.data = None
                         THEN /\ Raise(AttributeError)
                              /\ log' = Append(log, post)
                              /\ UNCHANGED <<after, out>>
                         ELSE LET reviews == data.data[1]
                                  page_info == reviews.pageInfo
                              IN  /\ out' = out \o ReviewRecords(reviews.edges)
                                  /\ UNCHANGED error
                                  /\ IF ~HasNextPage(page_info)
                                     THEN /\ pc' = "r_save"
                                          /\ log' = Append(log, post)
                                          /\ UNCHANGED after
                                     ELSE /\ pc' = "r_query"
                                          /\ after' = page_info.endCursor
                                          /\ log' = IF sleep # 0
                                                    THEN log \o <<post, Sleep("reviews")>>
                                                    ELSE Append(log, post)
    /\ UNCHANGED <<per_category, sleep, first, r_max_pages, t_max_pages, start_i, page,
                   total_pages, products, seen_urls, all_items, next_url, uniq, files>>

-----------------------------------------------------------------------------
(* TESTIMONIALS: the documents *)

\* A div.testimonial node: its p.text (text), its span.rating (the number
\* of svg nodes in it), its identicon-svg (username attribute) and its own
\* hx-get attribute.
Card(text, rating, ident, hx_get) ==
    [text |-> text, rating |-> rating, ident |-> ident, hx_get |-> hx_get]
Ident(username) == Some([username |-> username])

TestimonialCards ==
    { Card(Some("great"), Some(5), Ident(Some("u1")), None),
      Card(Some("great"), Some(4), Ident(Some("u1")), None),
      Card(Some("ok"), Some(0), Ident(None), None),
      Card(Some("ok"), None, None, None),
      Card(Some("great"), Some(5), Ident(Some("u1")), Some("/api/testimonials?page=2")),
      Card(None, None, Ident(Some("u2")),
           Some("https://web-scraping.dev/api/testimonials?page=2")),
      Card(Some("ok"), Some(0), None, Some("")) }

\* the full testimonials page or a fragment: its cards
TestimonialDoc(cards) == [cards |-> cards]

-----------------------------------------------------------------------------
(* TESTIMONIALS: parsing *)

\* the body of the loop of parse_testimonials_fragment: one card to one record
ParseCard(card) ==
    LET text == IF card.text # None THEN card.text[1] ELSE ""
        rating == IF card.rating # None
                  THEN (IF card.rating[1] # 0 THEN Some(card.rating[1]) ELSE Some(0))
                  ELSE None
        author == IF card.ident # None /\ card.ident[1].username # None
                  THEN card.ident[1].username[1] ELSE ""
    IN  [author |-> author, text |-> text, rating |-> rating]

\* soup.select_one("div.testimonial[hx-get]"): the URL of the first card
\* that has the attribute
NextHxGet(cards) ==
    LET loaders == { i \in DOMAIN cards : cards[i].hx_get # None }
    IN  IF loaders = {} THEN None
        ELSE LET i == CHOOSE i \in loaders : \A k \in loaders : i <= k
             IN  Some(JoinBase(cards[i].hx_get[1]))

\* parse_testimonials_fragment(html) raises ValueError: urljoin on the
\* hx-get attribute of the loader
parse_testimonials_fragment_raises(html) ==
    LET loaders == { i \in DOMAIN html.cards : html.cards[i].hx_get # None }
    IN  loaders # {} /\ JoinBaseRaises(html.cards[Least(loaders)].hx_get[1])

\* parse_testimonials_fragment(html), when it does not raise
parse_testimonials_fragment(html) ==
    [testimonials |-> [ i \in DOMAIN html.cards |-> ParseCard(html.cards[i]) ],
     next_url |-> NextHxGet(html.cards)]

-----------------------------------------------------------------------------
(* TESTIMONIALS: the crawler *)

\* htmx_headers, with secret_token = "secret123"
htmx_headers ==
    { <<"Referer", BASE_URL \o "/testimonials">>,
      <<"Accept", "text/html,*/*;q=0.9">>,
      <<"HX-Request", "true">>,
      <<"X-Requested-With", "XMLHttpRequest">>,
      <<"x-secret-token", "secret123">> }

\* the deduplication with the key (author, text)
RECURSIVE DedupItems_NoRating(_, _, _)
DedupItems_NoRating(items, seen, result) ==
    IF items = <<>> THEN result
    ELSE LET t == Head(items)
             key == <<t.author, t.text>>
         IN  IF key \in seen
             THEN DedupItems_NoRating(Tail(items), seen, result)
             ELSE DedupItems_NoRating(Tail(items), seen \cup {key}, Append(result, t))

\* a deduplication that keeps every record
DedupItems_KeepAll(items, seen, result) == result \o items

\* the deduplication loop at the end of scrape_testimonials_htmx
RECURSIVE DedupItems(_, _, _)
DedupItems(items, seen, result) ==
    IF items = <<>> THEN result
    ELSE LET t == Head(items)
             key == <<t.author, t.text, t.rating>>
         IN  IF key \in seen
             THEN DedupItems(Tail(items), seen, result)
             ELSE DedupItems(Tail(items), seen \cup {key}, Append(result, t))

\* the documents of the testimonial answers so far that the parser
\* accepted, in order
TestimonialDocs ==
    LET ans == SelectSeq(served, LAMBDA a : /\ a.crawler = "testimonials" /\ a.ok
                                            /\ ~parse_testimonials_fragment_raises(a.doc[1]))
    IN  [ i \in DOMAIN ans |-> ans[i].doc[1] ]

\* the number of cards the server has sent so far
CardsSent ==
    LET docs == TestimonialDocs
    IN  Len(Concat([ i \in DOMAIN docs |-> docs[i].cards ]))

\* the documents the server can answer with, when it sends at most budget
\* cards in one crawl
TestimonialAnswers(budget) ==
    { TestimonialDoc(cards) : cards \in SeqsUpTo(TestimonialCards, budget - CardsSent) }

\* except requests.HTTPError in main: the exception that leaves main
MainCatch(exc) ==
    IF exc.type = "HTTPError"
    THEN [type |-> "RuntimeError", msg |-> "Testimonials HTMX scrape failed", payload |-> None]
    ELSE exc

\* an exception leaves scrape_testimonials_htmx, called by main or directly
TestimonialRaise(exc, in_main) == Raise(IF in_main THEN MainCatch(exc) ELSE exc)

\* a loop test that never finds a next URL
TestimonialLoop_NoFollow(items, next) ==
    pc' = "t_save" /\ uniq' = DedupItems(items, {}, <<>>)

\* the test of "while next_url" on items collected so far: another
\* iteration, or the deduplication and the return
TestimonialLoop(items, next) ==
    IF next # None
    THEN pc' = "t_frag" /\ UNCHANGED uniq
    ELSE pc' = "t_save" /\ uniq' = DedupItems(items, {}, <<>>)

\* a page counter that counts the request of the full page too
TInit_CountsInitial(docs, in_main) ==
    /\ pc = "t_init"
    /\ LET first_url == BASE_URL \o "/testimonials"
       IN  log' = Append(log, Get("testimonials", first_url, {<<"Referer", BASE_URL>>}))
    /\ \/ /\ served' = Append(served, NotOk("testimonials"))
          /\ TestimonialRaise(HTTPError, in_main)
          /\ UNCHANGED <<all_items, next_url, pages, uniq>>
       \/ \E html \in docs :
            /\ served' = Append(served, Ok("testimonials", html))
            /\ IF parse_testimonials_fragment_raises(html)
               THEN /\ TestimonialRaise(ValueError, in_main)
                    /\ UNCHANGED <<all_items, next_url, pages, uniq>>
               ELSE LET parsed == parse_testimonials_fragment(html)
                    IN  /\ all_items' = parsed.testimonials
                        /\ next_url' = parsed.next_url
                        /\ pages' = 1
                        /\ TestimonialLoop(parsed.testimonials, parsed.next_url)
                        /\ UNCHANGED error
    /\ UNCHANGED <<per_category, sleep, first, r_max_pages, t_max_pages, start_i, page,
                   total_pages, products, seen_urls, after, out, files>>

\* scrape_testimonials_htmx up to the loop: the request of the full page
TInit(docs, in_main) ==
    /\ pc = "t_init"
    /\ LET first_url == BASE_URL \o "/testimonials"
       IN  log' = Append(log, Get("testimonials", first_url, {<<"Referer", BASE_URL>>}))
    /\ \/ /\ served' = Append(served, NotOk("testimonials"))
          /\ TestimonialRaise(HTTPError, in_main)
          /\ UNCHANGED <<all_items, next_url, pages, uniq>>
       \/ \E html \in docs :
            /\ served' = Append(served, Ok("testimonials", html))
            /\ IF parse_testimonials_fragment_raises(html)
               THEN /\ TestimonialRaise(ValueError, in_main)
                    /\ UNCHANGED <<all_items, next_url, pages, uniq>>
               ELSE LET parsed == parse_testimonials_fragment(html)
                    IN  /\ all_items' = parsed.testimonials
                        /\ next_url' = parsed.next_url
                        /\ pages' = 0
                        /\ TestimonialLoop(parsed.testimonials, parsed.next_url)
                        /\ UNCHANGED error
    /\ UNCHANGED <<per_category, sleep, first, r_max_pages, t_max_pages, start_i, page,
                   total_pages, products, seen_urls, after, out, files>>

\* one iteration of the loop of scrape_testimonials_htmx
TFrag(docs, in_main) ==
    /\ pc = "t_frag"
    /\ pages' = pages + 1
    /\ \/ /\ pages + 1 > t_max_pages
          /\ pc' = "t_save"
          /\ uniq' = DedupItems(all_items, {}, <<>>)
          /\ UNCHANGED <<log, served, all_items, next_url, error>>
       \/ /\ pages + 1 <= t_max_pages
          /\ LET get == Get("testimonials", next_url[1], htmx_headers)
             IN  \/ /\ log' = Append(log, get)
                    /\ served' = Append(served, NotOk("testimonials"))
                    /\ TestimonialRaise(HTTPError, in_main)
                    /\ UNCHANGED <<all_items, next_url, uniq>>
                 \/ \E chunk \in docs :
                      /\ served' = Append(served, Ok("testimonials", chunk))
                      /\ IF parse_testimonials_fragment_raises(chunk)
                         THEN /\ log' = Append(log, get)
                              /\ TestimonialRaise(ValueError, in_main)
                              /\ UNCHANGED <<all_items, next_url, uniq>>
                         ELSE LET parsed == parse_testimonials_fragment(chunk)
                              IN  /\ log' = IF sleep # 0
                                            THEN log \o <<get, Sleep("testimonials")>>
                                            ELSE Append(log, get)
                                  /\ all_items' = all_items \o parsed.testimonials
                                  /\ next_url' = parsed.next_url
                                  /\ TestimonialLoop(all_items \o parsed.testimonials,
                                                     parsed.next_url)
                                  /\ UNCHANGED error
    /\ UNCHANGED <<per_category, sleep, first, r_max_pages, t_max_pages, start_i, page,
                   total_pages, products, seen_urls, after, out, files>>

-----------------------------------------------------------------------------
(* MAIN *)

NoFiles == [ f \in {"products.json", "testimonials.json", "reviews.json"} |-> None ]

\* the state in which a crawler is called: nothing fetched, nothing written
Fresh ==
    /\ start_i = 1
    /\ page = 1
    /\ total_pages = 1
    /\ products = <<>>
    /\ seen_urls = {}
    /\ after = None
    /\ out = <<>>
    /\ all_items = <<>>
    /\ next_url = None
    /\ pages = 0
    /\ uniq = <<>>
    /\ log = <<>>
    /\ served = <<>>
    /\ error = None
    /\ files = NoFiles

\* the state in which scrape_products_html is called
InitProducts ==
    /\ pc = "p_first"
    /\ per_category \in BOOLEAN
    /\ sleep \in {0, 1}
    /\ first = 20
    /\ r_max_pages = 0
    /\ t_max_pages = 0
    /\ Fresh

\* the rows and the paging summaries the server sends in one product crawl
CrawlRows == IF per_category THEN MaxFanoutRows ELSE MaxProductRows
CrawlMetas ==
    IF per_category THEN {None, Some(PagingSummary("results", MaxTotalPages))} ELSE MetaNodes

\* documents with a reference whose square brackets urlsplit rejects
MalformedPages ==
    { ProductDoc(<<ProductRow(Anchor("A", Some("//[x")), Some("9.99"), None, None)>>, None) }
MalformedFragments ==
    { TestimonialDoc(<<Card(Some("ok"), Some(1), None, Some("//[x"))>>) }

NextProducts ==
    \/ ProdFirst(ProductAnswers(CrawlMetas, CrawlRows) \cup MalformedPages)
    \/ ProdPage(ProductAnswers({None}, CrawlRows) \cup MalformedPages)

SpecProducts == InitProducts /\ [][NextProducts]_vars

\* scrape_products_html called without a delay
InitListing == InitProducts /\ sleep = 0

SpecListing == InitListing /\ [][NextProducts]_vars

\* save_json(products_path, products), and the call of
\* scrape_testimonials_htmx
SaveProducts ==
    /\ pc = "p_save"
    /\ files' = [files EXCEPT !["products.json"] = Some(products)]
    /\ log' = Append(log, Write("products.json"))
    /\ pc' = "t_init"
    /\ UNCHANGED <<per_category, sleep, first, r_max_pages, t_max_pages, start_i, page,
                   total_pages, products, seen_urls, after, out, all_items, next_url,
                   pages, uniq, served, error>>

\* save_json(testimonials_path, testimonials), and the call of
\* scrape_reviews_graphql up to its loop
SaveTestimonials ==
    /\ pc = "t_save"
    /\ files' = [files EXCEPT !["testimonials.json"] = Some(uniq)]
    /\ log' = Append(log, Write("testimonials.json"))
    /\ after' = None
    /\ out' = <<>>
    /\ pages' = 0
    /\ pc' = "r_query"
    /\ UNCHANGED <<per_category, sleep, first, r_max_pages, t_max_pages, start_i, page,
                   total_pages, products, seen_urls, all_items, next_url, uniq, served,
                   error>>

\* save_json(reviews_path, reviews) and print("Done.")
SaveReviews ==
    /\ pc = "r_save"
    /\ files' = [files EXCEPT !["reviews.json"] = Some(out)]
    /\ log' = Append(log, Write("reviews.json"))
    /\ pc' = "done"
    /\ UNCHANGED <<per_category, sleep, first, r_max_pages, t_max_pages, start_i, page,
                   total_pages, products, seen_urls, after, out, all_items, next_url,
                   pages, uniq, served, error>>

\* the state in which main has parsed its arguments and made its session
Init ==
    /\ pc = "p_first"
    /\ per_category \in BOOLEAN
    /\ sleep \in {0, 1}
    /\ first = 20
    /\ r_max_pages \in 0..MaxMainCap
    /\ t_max_pages \in 0..MaxMainCap
    /\ Fresh

\* The site a run of main crawls: the listing pages, the testimonial
\* documents and the GraphQL answers its server can send.
MainFirstPages ==
    { ProductDoc(<<>>, None),
      ProductDoc(<<ProductRow(Anchor("A", Some("/product/1")), Some("9.99"), None, None)>>,
                 Some(PagingSummary("page 1 of total 28 results", 2))),
      ProductDoc(<<ProductRow(Anchor("B", Some("/product/2")), None, None, None)>>, None),
      ProductDoc(<<ProductRow(Anchor("C", Some("//[x")), None, None, None)>>, None) }
MainLaterPages ==
    { ProductDoc(<<>>, None),
      ProductDoc(<<ProductRow(Anchor("A", Some("product/1")), Some("10"), None, None)>>, None) }
MainTestimonialDocs ==
    { TestimonialDoc(<<>>),
      TestimonialDoc(<<Card(Some("ok"), None, None, None)>>),
      TestimonialDoc(<<Card(Some("great"), Some(5), Ident(Some("u1")),
                            Some("/api/testimonials?page=2"))>>),
      TestimonialDoc(<<Card(Some("ok"), Some(1), None, Some("//[x"))>>) }
MainReviewDocs ==
    { ReviewDoc(<<>>, ReviewData(<<>>, PageInfo(FALSE, None))),
      ReviewDoc(<<>>, ReviewData(<<Some(Some(ReviewNode(Some("r1"), None, Some(5), Some("good"))))>>,
                                 PageInfo(TRUE, Some("c1")))),
      ReviewDoc(<<"syntax error">>, None) }

Next ==
    \/ ProdFirst(MainFirstPages)
    \/ ProdPage(MainLaterPages)
    \/ SaveProducts
    \/ TInit(MainTestimonialDocs, TRUE)
    \/ TFrag(MainTestimonialDocs, TRUE)
    \/ SaveTestimonials
    \/ RevQuery(MainReviewDocs)
    \/ SaveReviews

Spec == Init /\ [][Next]_vars

\* the state in which scrape_reviews_graphql is called
InitReviews ==
    /\ pc = "r_query"
    /\ per_category = FALSE
    /\ sleep \in {0, 1}
    /\ first \in {1, 20}
    /\ r_max_pages \in 0..MaxCap
    /\ t_max_pages = 0
    /\ Fresh

NextReviews == RevQuery(ReviewAnswers(MaxReviewEdges, PageInfos))

SpecReviews == InitReviews /\ [][NextReviews]_vars

\* the state in which scrape_testimonials_htmx is called
InitTestimonials ==
    /\ pc = "t_init"
    /\ per_category = FALSE
    /\ sleep \in {0, 1}
    /\ first = 20
    /\ r_max_pages = 0
    /\ t_max_pages \in 0..MaxCap
    /\ Fresh

NextTestimonials ==
    \/ TInit(TestimonialAnswers(MaxCards) \cup MalformedFragments, FALSE)
    \/ TFrag(TestimonialAnswers(MaxCards) \cup MalformedFragments, FALSE)

SpecTestimonials == InitTestimonials /\ [][NextTestimonials]_vars

\* any one of the three crawlers, called on its own, without a delay
InitCrawlers == sleep = 0 /\ (InitProducts \/ InitTestimonials \/ InitReviews)

NextCrawlers == NextProducts \/ NextTestimonials \/ NextReviews

SpecCrawlers == InitCrawlers /\ [][NextCrawlers]_vars

-----------------------------------------------------------------------------
(* MAIN: a second run against the same server *)

\* the mark that separates the operations of the first run from those of
\* the second: it keeps how the first run ended and what it left on disk
RunMark == [by |-> "main", op |-> "RUN", url |-> pc, headers |-> {},
            payload |-> Some([files |-> files, error |-> error])]
AnswerMark == [crawler |-> "main", ok |-> TRUE, doc |-> None]

\* the program has been started a second time
Restarted == \E i \in DOMAIN log : log[i].op = "RUN"

\* a second start of the program that keeps the seen set of the first run
Restart_KeepSeen ==
    /\ pc \in {"done", "failed"}
    /\ ~Restarted
    /\ pc' = "p_first"
    /\ start_i' = 1 /\ page' = 1 /\ total_pages' = 1
    /\ products' = <<>>
    /\ after' = None /\ out' = <<>> /\ pages' = 0
    /\ all_items' = <<>> /\ next_url' = None /\ uniq' = <<>>
    /\ error' = None
    /\ log' = Append(log, RunMark)
    /\ served' = Append(served, AnswerMark)
    /\ UNCHANGED <<per_category, sleep, first, r_max_pages, t_max_pages, files, seen_urls>>

\* The program is started again with the same arguments, after a run that
\* ended: every crawler makes its result list, its seen set, its cursor and
\* its page counter when it is called, and the files of the first run are
\* still on disk.
Restart ==
    /\ pc \in {"done", "failed"}
    /\ ~Restarted
    /\ pc' = "p_first"
    /\ start_i' = 1 /\ page' = 1 /\ total_pages' = 1
    /\ products' = <<>> /\ seen_urls' = {}
    /\ after' = None /\ out' = <<>> /\ pages' = 0
    /\ all_items' = <<>> /\ next_url' = None /\ uniq' = <<>>
    /\ error' = None
    /\ log' = Append(log, RunMark)
    /\ served' = Append(served, AnswerMark)
    /\ UNCHANGED <<per_category, sleep, first, r_max_pages, t_max_pages, files>>

\* the unchanged server: the k-th answer of the second run is the k-th
\* answer of the first run (past the answers of the first run, any answer)
SameAnswers ==
    \/ served' = served
    \/ LET m == CHOOSE i \in DOMAIN served : served[i] = AnswerMark
           k == Len(served') - m
       IN  k < m => served'[Len(served')] = served[k]

\* two runs of main, one after the other, against the same answers
NextTwice ==
    \/ Next /\ (Restarted => SameAnswers)
    \/ Restart

\* both runs are started with a delay between the requests and with one
\* page cap for the two capped crawlers
InitTwice == Init /\ sleep = 1 /\ r_max_pages = t_max_pages

SpecTwice == InitTwice /\ [][NextTwice]_vars

-----------------------------------------------------------------------------
(* PRODUCTS: properties *)

\* the requests of the product crawler and the answers to them, in order
ProductGets == SelectSeq(log, LAMBDA e : e.op = "GET" /\ e.by = "products")
ProductServed == SelectSeq(served, LAMBDA a : a.crawler = "products")

\* the URLs of the requests that can be made for a start URL: the start URL
\* itself and its pages
AllStarts == { start_urls(TRUE)[i] : i \in DOMAIN start_urls(TRUE) }
ListingUrls ==
    [ st \in AllStarts |->
        {UrlOf(st)} \cup { PageUrl(st, p) : p \in 2..(MaxTotalPages + 2) } ]

\* the positions, among the product requests gets, of the requests made for
\* the start URL st
GetsFor(gets, st) == { k \in DOMAIN gets : gets[k].url \in ListingUrls[st] }

\* the requests at the positions ks include the start URL's first request,
\* and it was answered with a document in which no total is found: no
\* div.paging-meta node, or no "in N pages" in it
NoTotalFound(answers, ks) ==
    /\ ks # {}
    /\ LET k == CHOOSE k \in ks : \A j \in ks : k <= j
       IN  /\ answers[k].ok
           /\ find_total_pages_products(answers[k].doc[1]) = None

\* C1: the total page count of a start URL is at least 1 whatever the first
\* page holds, and a start URL whose first page carries no total gets
\* exactly one request and exactly one processed page, after which the
\* crawler has left it: it has returned, or moved to the next start URL, or
\* was ended by the parser's exception on that page.
C1_TotalAtLeastOne ==
    LET gets == ProductGets
        answers == ProductServed
        starts == start_urls(per_category)
    IN  /\ total_pages >= 1
        /\ Len(gets) = Len(answers)
        /\ \A i \in DOMAIN starts :
             LET ks == GetsFor(gets, starts[i])
             IN  NoTotalFound(answers, ks) =>
                   /\ Cardinality(ks) = 1
                   /\ \A k \in ks : answers[k].ok
                   /\ \/ IF i = Len(starts) THEN pc = "p_save" ELSE start_i > i
                      \/ /\ pc = "failed"
                         /\ \A k \in ks : parse_products_from_page_raises(answers[k].doc[1])

\* the crawl of the single default listing has returned after one request,
\* answered with a non-empty page without a paging-summary node
C1_Witness ==
    /\ pc = "p_save"
    /\ ~per_category
    /\ Len(ProductGets) = 1
    /\ ProductServed[1].ok
    /\ ProductServed[1].doc[1].meta = None
    /\ Len(products) >= 1

\* the elements of s at the positions in K, in increasing order of position
RECURSIVE Pick(_, _, _)
Pick(s, K, j) ==
    IF j > Len(s) THEN <<>>
    ELSE (IF j \in K THEN <<s[j]>> ELSE <<>>) \o Pick(s, K, j + 1)

\* the positions of the items of f that are the first with their URL, or
\* have no URL
FirstSeen(f) ==
    { j \in DOMAIN f : f[j].url = "" \/ \A k \in 1..(j - 1) : f[k].url # f[j].url }

\* C2: a non-empty item URL that was fetched, however often, has exactly one
\* record in the result, that record is the first fetched item with the URL,
\* and the result lists the surviving items in the order they were fetched.
C2_ProductDedup ==
    LET f == Fetched
    IN  /\ \A j \in DOMAIN f :
             f[j].url # "" =>
               LET u == f[j].url
                   at == { k \in DOMAIN products : products[k].url = u }
                   firstAt == CHOOSE k \in DOMAIN f :
                                 /\ f[k].url = u
                                 /\ \A l \in 1..(k - 1) : f[l].url # u
               IN  /\ Cardinality(at) = 1
                   /\ \A k \in at : products[k] = f[firstAt]
        /\ products = Pick(f, FirstSeen(f), 1)

\* the crawl has returned two records from three items fetched over two
\* pages, of which a later one repeats the URL of an earlier one with
\* other fields
C2_Witness ==
    LET f == Fetched
    IN  /\ pc = "p_save"
        /\ Len(ProductDocs) >= 2
        /\ Len(f) = 3
        /\ Len(products) = 2
        /\ \E j, k \in DOMAIN f :
             /\ j < k
             /\ f[j].url # ""
             /\ f[j].url = f[k].url
             /\ f[j] # f[k]

-----------------------------------------------------------------------------
(* REVIEWS: properties *)

\* the queries of the review crawler, in order
ReviewPosts == SelectSeq(log, LAMBDA e : e.op = "POST" /\ e.by = "reviews")

\* the nodes of the edges of the documents docs, in server order: a null
\* edge or a null node stands for a node without any field
NodesOf(docs) ==
    LET edges == Concat([ i \in DOMAIN docs |-> docs[i].data[1].edges ])
    IN  [ i \in DOMAIN edges |->
            IF edges[i] = None \/ edges[i][1] = None
            THEN [ f \in {"rid", "date", "rating", "text"} |-> None ]
            ELSE edges[i][1][1] ]

\* C3: in a crawl without errors, once the k-th answer is the first whose
\* hasNextPage is false, with k within the cap, exactly k queries were
\* issued, the crawler has returned, and its result is the nodes of the
\* answers 1..k in server order, nothing sorted and nothing dropped.
C3_ReviewCrawl ==
    LET docs == ReviewDocs
    IN  \A k \in DOMAIN docs :
          ( /\ error = None
            /\ k <= r_max_pages
            /\ ~docs[k].data[1].pageInfo.hasNextPage
            /\ \A j \in 1..(k - 1) : docs[j].data[1].pageInfo.hasNextPage )
          => /\ Len(ReviewPosts) = k
             /\ Len(docs) = k
             /\ pc = "r_save"
             /\ out = NodesOf(docs)

\* the fixture hasNextPage = true, true, false: three queries, and a result
\* of two records, the first of which repeats the rid of the second
C3_Witness ==
    LET docs == ReviewDocs
    IN  /\ pc = "r_save"
        /\ error = None
        /\ Len(docs) = 3
        /\ Len(ReviewPosts) = 3
        /\ docs[1].data[1].pageInfo.hasNextPage
        /\ docs[2].data[1].pageInfo.hasNextPage
        /\ ~docs[3].data[1].pageInfo.hasNextPage
        /\ Len(out) = 2
        /\ out[1].rid = Some("r1") /\ out[1].text = Some("bad")
        /\ out[2].rid = Some("r1") /\ out[2].text = Some("good")

\* C4: an answer with a non-empty errors array ends the crawl with the
\* RuntimeError that carries the errors: the query it answers is the last
\* one, the crawler does not return, and no reviews file is written.
C4_ReviewErrorsAbort ==
    LET docs == ReviewDocs
    IN  \A k \in DOMAIN docs :
          docs[k].errors # <<>> =>
            /\ pc = "failed"
            /\ error = Some([type |-> "RuntimeError", msg |-> "GraphQL errors",
                             payload |-> Some(docs[k].errors)])
            /\ error # Some(HTTPError)
            /\ Len(ReviewPosts) = k
            /\ Len(docs) = k
            /\ files["reviews.json"] = None

\* the second answer carries errors, after a first page that gave records
\* and announced a next page
C4_Witness ==
    LET docs == ReviewDocs
    IN  /\ Len(docs) = 2
        /\ docs[1].errors = <<>>
        /\ docs[2].errors # <<>>
        /\ docs[2].data # None
        /\ out # <<>>
        /\ pc = "failed"

-----------------------------------------------------------------------------
(* TESTIMONIALS: properties *)

\* the requests of the testimonial crawler, in order
TestimonialGets == SelectSeq(log, LAMBDA e : e.op = "GET" /\ e.by = "testimonials")

\* the document carries a "load more" link: a card with an hx-get attribute
HasLink(doc) == \E i \in DOMAIN doc.cards : doc.cards[i].hx_get # None

\* url is the absolute form of the first "load more" link of the document:
\* the link itself when it names its site, the link on this site otherwise
IsLinkOf(url, doc) ==
    \E i \in DOMAIN doc.cards :
      /\ doc.cards[i].hx_get # None
      /\ \A k \in 1..(i - 1) : doc.cards[k].hx_get = None
      /\ url = (IF StartsWith(doc.cards[i].hx_get[1], "https://")
                THEN doc.cards[i].hx_get[1]
                ELSE "https://web-scraping.dev" \o doc.cards[i].hx_get[1])

Min(a, b) == IF a <= b THEN a ELSE b

\* C5: the n-th fragment request goes to the link found in the answer before
\* it and carries the secret token with the HX-Request headers; an answer
\* without a link is the last one and the crawler returns on it; a crawl
\* that has returned made one fragment request per link found, up to the cap.
C5_FragmentChain ==
    LET docs == TestimonialDocs
        gets == TestimonialGets
    IN  /\ \A n \in 2..Len(gets) :
             /\ IsLinkOf(gets[n].url, docs[n - 1])
             /\ { <<"x-secret-token", "secret123">>, <<"HX-Request", "true">>,
                  <<"X-Requested-With", "XMLHttpRequest">> } \subseteq gets[n].headers
        /\ \A k \in DOMAIN docs :
             ~HasLink(docs[k]) => Len(gets) = k /\ Len(docs) = k /\ pc = "t_save"
        /\ pc = "t_save" =>
             /\ Len(docs) = Len(gets)
             /\ Len(gets) - 1 =
                  Min(Cardinality({ k \in DOMAIN docs : HasLink(docs[k]) }), t_max_pages)

\* the full page and a chain of two fragments, the second without a link:
\* two fragment requests, under a cap of three
C5_Witness ==
    LET docs == TestimonialDocs
    IN  /\ pc = "t_save"
        /\ t_max_pages = 3
        /\ Len(docs) = 3
        /\ HasLink(docs[1]) /\ HasLink(docs[2]) /\ ~HasLink(docs[3])
        /\ Len(TestimonialGets) = 3
        /\ TestimonialGets[2].url # TestimonialGets[3].url

\* the records parsed from the answers, full page first, in order
CardRecords ==
    LET docs == TestimonialDocs
    IN  Concat([ i \in DOMAIN docs |-> parse_testimonials_fragment(docs[i]).testimonials ])

\* the positions of the records of r that are the first with their
\* (author, text, rating)
FirstTriple(r) == { j \in DOMAIN r : \A k \in 1..(j - 1) : r[k] # r[j] }

\* C6: the result of the testimonial crawl is the records of all the pages
\* with every repeat of an (author, text, rating) triple removed: one record
\* per triple, at the place of its first occurrence, in discovery order;
\* records that differ only in rating are both in it.
C6_TestimonialDedup ==
    pc = "t_save" =>
      LET r == CardRecords
      IN  /\ all_items = r
          /\ uniq = Pick(r, FirstTriple(r), 1)
          /\ \A i, j \in DOMAIN r :
               ( r[i].author = r[j].author /\ r[i].text = r[j].text
                 /\ r[i].rating # r[j].rating )
               => \E a, b \in DOMAIN uniq : a # b /\ uniq[a] = r[i] /\ uniq[b] = r[j]
          /\ \A a, b \in DOMAIN uniq : a # b => uniq[a] # uniq[b]

\* two fragments repeat a triple, and a record that differs from it only in
\* rating was fetched too: the result has one record for each of the two
C6_Witness ==
    LET docs == TestimonialDocs
    IN  /\ pc = "t_save"
        /\ Len(docs) = 3
        /\ Len(all_items) = 4
        /\ Len(uniq) = 3
        /\ \E i \in DOMAIN docs[2].cards, j \in DOMAIN docs[3].cards :
             ParseCard(docs[2].cards[i]) = ParseCard(docs[3].cards[j])
        /\ \E a, b \in DOMAIN uniq :
             /\ uniq[a].author = uniq[b].author
             /\ uniq[a].text = uniq[b].text
             /\ uniq[a].rating # uniq[b].rating

\* the number of rating symbols of a card: the svg nodes of its span.rating,
\* none when it has no span.rating
RatingSymbols(card) == IF card.rating = None THEN 0 ELSE card.rating[1]

\* C9: the rating of every testimonial record is the integer count of the
\* rating symbols of its card, and so 0, not null, for a card without rating
\* symbols, with or without a rating node.
C9_RatingIsCount ==
    LET docs == TestimonialDocs
        cards == Concat([ i \in DOMAIN docs |-> docs[i].cards ])
    IN  /\ Len(all_items) = Len(cards)
        /\ \A i \in DOMAIN cards :
             /\ all_items[i].rating # None
             /\ all_items[i].rating = Some(RatingSymbols(cards[i]))

-----------------------------------------------------------------------------
(* MAIN: properties *)

\* the crawlers in the order main runs them, and the file of each
Crawlers == <<"products", "testimonials", "reviews">>
FileOf(crawler) == crawler \o ".json"

\* the crawler whose request got the answer that ended the run
FailedCrawler == served[Len(served)].crawler

\* the position of a crawler in the order of main
OrderOf(crawler) == CHOOSE i \in DOMAIN Crawlers : Crawlers[i] = crawler

\* C7, fault isolation: when the run has ended, every crawler other than one
\* that failed has run to completion and has its file written.
C7_FaultIsolation ==
    pc \in {"done", "failed"} =>
      \A i \in DOMAIN Crawlers :
        (pc = "failed" /\ Crawlers[i] = FailedCrawler) \/ files[FileOf(Crawlers[i])] # None

\* C7, amended: a fatal failure of one crawler ends the whole run at once.
\* The crawlers that main runs after it are never started (no request of
\* theirs is made, no file of theirs is written), the crawlers that
\* completed before it have their files, and the run ends with the
\* exception, not with a summary.
C7_FailFast ==
    error # None =>
      /\ pc = "failed"
      /\ \A i \in DOMAIN Crawlers :
           LET c == Crawlers[i]
           IN  IF i < OrderOf(FailedCrawler)
               THEN files[FileOf(c)] # None
               ELSE /\ files[FileOf(c)] = None
                    /\ i > OrderOf(FailedCrawler) =>
                         \A k \in DOMAIN log : log[k].by # c

\* the testimonial crawler failed on a fragment: the products file is
\* written, and the review crawler, whose cap allows a query, made none
C7_Witness ==
    /\ pc = "failed"
    /\ FailedCrawler = "testimonials"
    /\ Len(SelectSeq(log, LAMBDA e : e.by = "testimonials" /\ e.op = "GET")) = 2
    /\ files["products.json"] # None
    /\ r_max_pages >= 1
    /\ \A k \in DOMAIN log : log[k].by # "reviews"

\* C8: a crawler that fails, on its first request or on a later one, gets no
\* output file, whatever it had collected; the files written before the
\* failure hold the complete results of their crawlers; and the run ends as
\* failed, never as done: a run that is done had no failure and wrote the
\* three files.
C8_NoPartialFile ==
    /\ error # None =>
         /\ pc = "failed"
         /\ files[FileOf(FailedCrawler)] = None
         /\ \A k \in DOMAIN log : log[k].op = "WRITE" => log[k].url # FileOf(FailedCrawler)
    /\ files["products.json"] # None => files["products.json"] = Some(products)
    /\ files["testimonials.json"] # None => files["testimonials.json"] = Some(uniq)
    /\ files["reviews.json"] # None => files["reviews.json"] = Some(out)
    /\ pc = "done" => error = None /\ \A i \in DOMAIN Crawlers : files[FileOf(Crawlers[i])] # None

\* the product crawler failed on its second page, with a record collected
\* from the first: no file at all is written
C8_Witness ==
    /\ pc = "failed"
    /\ FailedCrawler = "products"
    /\ Len(served) = 2
    /\ products # <<>>
    /\ files = NoFiles

-----------------------------------------------------------------------------
(* ALL CRAWLERS: properties *)

ProductKeys == {"name", "url", "price", "short_description", "image"}
ReviewKeys == {"rid", "date", "rating", "text"}
TestimonialKeys == {"author", "text", "rating"}

\* the rows, cards and edges the server has sent, in order
RowsSent ==
    LET docs == ProductDocs IN Concat([ i \in DOMAIN docs |-> docs[i].rows ])
CardsOfDocs ==
    LET docs == TestimonialDocs IN Concat([ i \in DOMAIN docs |-> docs[i].cards ])

\* the answer that ended the crawl was a fault of the transport or of the
\* protocol: a non-2xx status, an errors array, or a null "data"
FaultAnswer(a) ==
    \/ ~a.ok
    \/ a.crawler = "reviews" /\ (a.doc[1].errors # <<>> \/ a.doc[1].data = None)

\* C10: every record of the three crawlers has exactly the keys of its
\* shape; every row, card and edge the server sent has its record, so none
\* is dropped for a missing field; a row whose price node is missing or
\* holds a text that float() rejects has the price null; and a crawl is aborted
\* only by a fault of the transport or the protocol, never by a field that
\* is missing or does not parse.
C10_FixedSchema ==
    LET rows == RowsSent
        f == Fetched
    IN  /\ \A i \in DOMAIN products : DOMAIN products[i] = ProductKeys
        /\ \A i \in DOMAIN out : DOMAIN out[i] = ReviewKeys
        /\ \A i \in DOMAIN all_items : DOMAIN all_items[i] = TestimonialKeys
        /\ \A i \in DOMAIN uniq : DOMAIN uniq[i] = TestimonialKeys
        /\ Len(f) = Len(rows)
        /\ \A i \in DOMAIN rows :
             /\ DOMAIN f[i] = ProductKeys
             /\ (rows[i].price = None \/ float_raises(rows[i].price[1]))
                  => f[i].price = None
             /\ (f[i].url = "" \/ \A k \in 1..(i - 1) : f[k].url # f[i].url)
                  => \E j \in DOMAIN products : products[j] = f[i]
        /\ Len(all_items) = Len(CardsOfDocs)
        /\ error = None => Len(out) = EdgesSent
        /\ error # None => FaultAnswer(served[Len(served)])

-----------------------------------------------------------------------------
(* DATASETS: properties *)

\* the records of a file that was written; no records for one that was not
Dataset(path) == IF files[path] = None THEN <<>> ELSE files[path][1]

\* the keys of the records recs are pairwise different
Distinct(keys) == \A i, j \in DOMAIN keys : i # j => keys[i] # keys[j]

UrlKeys(recs) == [ i \in DOMAIN recs |-> recs[i].url ]
RidKeys(recs) == [ i \in DOMAIN recs |-> recs[i].rid ]
TripleKeys(recs) == [ i \in DOMAIN recs |-> <<recs[i].author, recs[i].text, recs[i].rating>> ]

\* C11, for any server: in every dataset written, no two records share an
\* identity key: the url of a product, the rid of a review, the (author,
\* text, rating) of a testimonial.
C11_UniqueKeys ==
    /\ Distinct(UrlKeys(Dataset("products.json")))
    /\ Distinct(RidKeys(Dataset("reviews.json")))
    /\ Distinct(TripleKeys(Dataset("testimonials.json")))

\* C11, amended: in the products written no two records share a non-empty
\* url, and in the testimonials written no two records share an (author,
\* text, rating); the reviews written are the nodes the server sent, one
\* record per edge, so that two of them share a rid exactly when the server
\* sent that rid in two edges.
C11_UniqueWhereEnforced ==
    LET p == Dataset("products.json")
        t == Dataset("testimonials.json")
        docs == ReviewDocs
    IN  /\ \A i, j \in DOMAIN p : (i # j /\ p[i].url # "") => p[i].url # p[j].url
        /\ Distinct(TripleKeys(t))
        /\ files["reviews.json"] # None =>
             /\ files["reviews.json"] = Some(NodesOf(docs))
             /\ Distinct(RidKeys(Dataset("reviews.json")))
                  <=> Distinct(RidKeys(NodesOf(docs)))

\* a run that is done dropped a repeated product URL and a repeated
\* testimonial, and wrote two reviews with the rid the server sent twice
C11_Witness ==
    /\ pc = "done"
    /\ Len(Fetched) > Len(Dataset("products.json"))
    /\ Len(Dataset("products.json")) >= 1
    /\ Len(all_items) > Len(Dataset("testimonials.json"))
    /\ Len(Dataset("testimonials.json")) >= 1
    /\ Len(Dataset("reviews.json")) = 2
    /\ Dataset("reviews.json")[1].rid = Dataset("reviews.json")[2].rid

\* the operations of the first run and of the second, and how the first ended
RunMarkAt == CHOOSE i \in DOMAIN log : log[i].op = "RUN"
FirstRun == SubSeq(log, 1, RunMarkAt - 1)
SecondRun == SubSeq(log, RunMarkAt + 1, Len(log))
FirstEnd == log[RunMarkAt]

\* C12: a second run against the same answers performs the operations of
\* the first run, one by one (the same requests with the same headers and
\* payloads, the same pauses, the same writes); when it has ended it has
\* ended as the first did, and the files on disk hold what the first run
\* left: the same records in the same order.
C12_Idempotent ==
    Restarted =>
      LET one == FirstRun
          two == SecondRun
      IN  /\ Len(two) <= Len(one)
          /\ two = SubSeq(one, 1, Len(two))
          /\ pc \in {"done", "failed"} =>
               /\ two = one
               /\ pc = FirstEnd.url
               /\ error = FirstEnd.payload[1].error
               /\ files = FirstEnd.payload[1].files

\* the second run is done: it has repeated the requests of a first run in
\* which a product URL had been seen, a cursor followed and a fragment
\* link followed
C12_Witness ==
    /\ Restarted
    /\ pc = "done"
    /\ Len(SelectSeq(SecondRun, LAMBDA e : e.by = "products" /\ e.op = "GET")) >= 2
    /\ Len(SelectSeq(SecondRun, LAMBDA e : e.by = "testimonials" /\ e.op = "GET")) >= 2
    /\ Len(SelectSeq(SecondRun, LAMBDA e : e.by = "reviews" /\ e.op = "POST")) >= 2
    /\ Len(Dataset("products.json")) >= 1
    /\ Len(Dataset("reviews.json")) >= 1
    /\ Len(Dataset("testimonials.json")) >= 1

-----------------------------------------------------------------------------
(* PRODUCTS: properties of the fan-out *)

\* the items extracted so far, in fetch order, each with the index of the
\* start URL whose listing it was fetched from
FetchedFrom(gets, answers, starts) ==
    Concat([ k \in DOMAIN answers |->
               IF answers[k].ok /\ ~parse_products_from_page_raises(answers[k].doc[1])
               THEN LET from == CHOOSE i \in DOMAIN starts : k \in GetsFor(gets, starts[i])
                        rows == answers[k].doc[1].rows
                    IN  [ j \in DOMAIN rows |->
                            [start |-> from, item |-> ParseProductRow(rows[j])] ]
               ELSE <<>> ])

\* C13: with the category fan-out, the seen set holds the URLs of every
\* listing crawled so far, and an item URL fetched from two different start
\* URLs has exactly one record, which is the item of the start URL that was
\* processed first.
C13_SharedSeenSet ==
    per_category =>
      LET t == FetchedFrom(ProductGets, ProductServed, start_urls(TRUE))
      IN  /\ seen_urls = { t[a].item.url : a \in DOMAIN t } \ {""}
          /\ \A a, b \in DOMAIN t :
               ( /\ a < b
                 /\ t[a].item.url # ""
                 /\ t[a].item.url = t[b].item.url
                 /\ t[a].start < t[b].start
                 /\ \A c \in 1..(a - 1) : t[c].item.url # t[a].item.url )
               => /\ Cardinality({ k \in DOMAIN products :
                                     products[k].url = t[a].item.url }) = 1
                  /\ \E k \in DOMAIN products : products[k] = t[a].item
                  /\ t[b].item # t[a].item =>
                       \A k \in DOMAIN products : products[k] # t[b].item

\* the fan-out has returned one record for a URL that the default listing
\* and a category listing both hold, with other fields in the category
C13_Witness ==
    LET t == FetchedFrom(ProductGets, ProductServed, start_urls(TRUE))
    IN  /\ per_category
        /\ pc = "p_save"
        /\ Len(t) = 2
        /\ t[1].start = 1 /\ t[2].start > 1
        /\ t[1].item.url = t[2].item.url
        /\ t[1].item.url # ""
        /\ t[1].item # t[2].item
        /\ products = <<t[1].item>>

-----------------------------------------------------------------------------
(* PRODUCTS: items without a URL *)

\* the records of recs that have an empty url, in order
WithoutUrl(recs) == SelectSeq(recs, LAMBDA r : r.url = "")

\* C14: every fetched item with an empty url has its own record in the
\* result, in fetch order, however many items with an empty url, or with
\* the very same fields, came before it; and the empty url is never in the
\* seen set.
C14_EmptyUrlKept ==
    /\ "" \notin seen_urls
    /\ WithoutUrl(products) = WithoutUrl(Fetched)

\* the crawl has returned two records with the same fields and no url,
\* fetched on two different pages
C14_Witness ==
    LET docs == ProductDocs
    IN  /\ pc = "p_save"
        /\ Len(docs) = 2
        /\ \E i \in DOMAIN docs[1].rows, j \in DOMAIN docs[2].rows :
             /\ docs[1].rows[i].a = None
             /\ docs[2].rows[j] = docs[1].rows[i]
        /\ Len(WithoutUrl(products)) = 2
        /\ WithoutUrl(products)[1] = WithoutUrl(products)[2]

-----------------------------------------------------------------------------
(* PRODUCTS: the order of the requests *)

\* the requests of a start URL whose total is n: the start URL, then
\* page=2 .. page=n
RequestUrls ==
    [ st \in AllStarts |->
        [ q \in 1..(MaxTotalPages + 1) |-> IF q = 1 THEN UrlOf(st) ELSE PageUrl(st, q) ] ]
RequestsOf(st, n) == SubSeq(RequestUrls[st], 1, n)

\* The requests the crawl is to make, from the start URL i on, whose first
\* request is the k-th of the crawl: the total of each start URL is the one
\* found in the answer to its first request (1 when none is found); nothing
\* is planned past a first request that is not made yet, that failed, or
\* whose answer the parser rejected.
RECURSIVE Plan(_, _, _, _)
Plan(starts, answers, i, k) ==
    IF i > Len(starts) THEN <<>>
    ELSE IF \/ k > Len(answers)
            \/ ~answers[k].ok
            \/ parse_products_from_page_raises(answers[k].doc[1])
    THEN RequestsOf(starts[i], 1)
    ELSE LET n == OrOne(find_total_pages_products(answers[k].doc[1]))
         IN  RequestsOf(starts[i], n) \o Plan(starts, answers, i + 1, k + n)

\* the URLs that would request the first page of a listing by its number
FirstPageUrls == { PageUrl(st, q) : st \in AllStarts, q \in 0..1 }

\* C15: the requests of the product crawl are, start URL by start URL, the
\* start URL itself and then page=2, ..., page=N in increasing order, N
\* being the total found on the first page: the first page is never
\* requested as page=1, no page is requested twice, and a crawl that has
\* returned has made exactly N requests for every start URL.
C15_PagesInOrder ==
    LET gets == ProductGets
        starts == start_urls(per_category)
        answers == ProductServed
        plan == Plan(starts, answers, 1, 1)
    IN  /\ Len(gets) <= Len(plan)
        /\ \A k \in DOMAIN gets : gets[k].url = plan[k]
        /\ \A k \in DOMAIN gets : gets[k].url \notin FirstPageUrls
        /\ pc = "p_save" =>
             /\ Len(gets) = Len(plan)
             /\ \A i \in DOMAIN starts :
                  LET ks == GetsFor(gets, starts[i])
                      k1 == CHOOSE k \in ks : \A j \in ks : k <= j
                  IN  /\ ks # {}
                      /\ Cardinality(ks) =
                           OrOne(find_total_pages_products(answers[k1].doc[1]))

\* the crawl of a listing of MaxTotalPages pages has returned: one request
\* for the start URL, one for each later page, with records from the first
\* page and from the last
C15_Witness ==
    LET gets == ProductGets
        docs == ProductDocs
    IN  /\ pc = "p_save"
        /\ ~per_category
        /\ Len(gets) = MaxTotalPages
        /\ gets[1].url = "https://web-scraping.dev/products"
        /\ gets[MaxTotalPages].url =
             "https://web-scraping.dev/products?page=" \o ToString(MaxTotalPages)
        /\ docs[1].rows # <<>>
        /\ docs[MaxTotalPages].rows # <<>>
        /\ Len(products) >= 2

-----------------------------------------------------------------------------
(* REVIEWS: the page cap *)

\* C16: whatever the server answers, the review crawler issues at most
\* max_pages queries, and its page counter grows with every iteration up to
\* the cap, where the loop ends; when every answer announced a next page
\* and the cap ended the crawl, the crawler has returned without an error,
\* with the records of exactly max_pages pages.
C16_CircuitBreaker ==
    LET docs == ReviewDocs
        posts == ReviewPosts
    IN  /\ Len(posts) <= r_max_pages
        /\ pc = "r_query" => pages = Len(posts) /\ pages <= r_max_pages
        /\ pc = "r_save" => error = None
        /\ ( /\ pc # "r_query"
             /\ Len(posts) = r_max_pages
             /\ Len(docs) = r_max_pages
             /\ \A k \in DOMAIN docs :
                  /\ docs[k].errors = <<>>
                  /\ docs[k].data # None
                  /\ docs[k].data[1].pageInfo.hasNextPage )
           => /\ pc = "r_save"
              /\ error = None
              /\ pages = r_max_pages + 1
              /\ out = NodesOf(docs)

\* a server that announces a next page on each of MaxCap answers, under a
\* cap of MaxCap: the crawler has returned the records of the MaxCap pages
C16_Witness ==
    LET docs == ReviewDocs
    IN  /\ pc = "r_save"
        /\ r_max_pages = MaxCap
        /\ Len(ReviewPosts) = MaxCap
        /\ Len(docs) = MaxCap
        /\ \A k \in DOMAIN docs : docs[k].data[1].pageInfo.hasNextPage
        /\ Len(out) = MaxReviewEdges
        /\ error = None

-----------------------------------------------------------------------------
(* REVIEWS: the cursor *)

\* C17: the first query of a crawl is sent with after = null, every later
\* query with the endCursor of the answer to the query before it, and all
\* the queries of a crawl with the same document and the same page size,
\* the one the crawler was called with.
C17_CursorChain ==
    LET docs == ReviewDocs
        posts == ReviewPosts
    IN  \A n \in DOMAIN posts :
          LET variables == posts[n].payload[1]
          IN  /\ variables.query = "REVIEWS_QUERY"
              /\ variables.first = first
              /\ variables.first = posts[1].payload[1].first
              /\ n = 1 => variables.after = None
              /\ n > 1 => /\ Len(docs) >= n - 1
                          /\ variables.after = docs[n - 1].data[1].pageInfo.endCursor

\* three queries: the second carries the cursor of the first answer and
\* the third the other cursor, that of the second answer
C17_Witness ==
    LET docs == ReviewDocs
        posts == ReviewPosts
    IN  /\ Len(posts) = 3
        /\ Len(docs) >= 2
        /\ posts[1].payload[1].after = None
        /\ docs[1].data[1].pageInfo.endCursor = Some("c1")
        /\ posts[2].payload[1].after = Some("c1")
        /\ docs[2].data[1].pageInfo.endCursor = Some("c2")
        /\ posts[3].payload[1].after = Some("c2")
        /\ posts[3].payload[1].first = 1

-----------------------------------------------------------------------------
(* TESTIMONIALS: faults of the fragment endpoint *)

\* the answers to the requests of the testimonial crawler, in order
TestimonialServed == SelectSeq(served, LAMBDA a : a.crawler = "testimonials")

\* the answer is a 2xx document without any div.testimonial node
NoStructure(a) == a.ok /\ a.doc[1].cards = <<>>

\* C18: a fragment answer that is not 2xx, or that holds no testimonial
\* node, ends the testimonial crawl with an error and never with a normal
\* return, and the error for the missing structure is not the one of a
\* failed transport.
C18_ContractErrors ==
    LET answers == TestimonialServed
    IN  \A k \in 2..Len(answers) :
          (~answers[k].ok \/ NoStructure(answers[k])) =>
            /\ pc = "failed"
            /\ error # None
            /\ NoStructure(answers[k]) => error # Some(HTTPError)

-----------------------------------------------------------------------------
(* ALL CRAWLERS: the delay between requests *)

\* the operation is a request
IsRequest(e) == e.op \in {"GET", "POST"}

\* C19: with a delay greater than zero, between every two requests that
\* follow one another in the sequence of one crawler there is a pause of
\* that crawler: between its first request and its second as between any
\* later two, and between the last page of a product start URL and the
\* first page of the next.
C19_PauseBetweenRequests ==
    sleep # 0 =>
      \A a, b \in DOMAIN log :
        ( /\ a < b
          /\ IsRequest(log[a]) /\ IsRequest(log[b])
          /\ log[a].by = log[b].by
          /\ \A c \in (a + 1)..(b - 1) : ~IsRequest(log[c]) )
        => \E c \in (a + 1)..(b - 1) : log[c].op = "SLEEP" /\ log[c].by = log[a].by

-----------------------------------------------------------------------------
(* TESTIMONIALS: the page cap *)

\* C20: whatever chain of links the server sends, the testimonial crawler
\* makes its initial request and at most max_pages fragment requests, the
\* page counter counting the fragment requests only; a crawl whose last
\* answer still carries a link was ended by the cap, after exactly
\* max_pages fragment requests, and it has returned, without an error, the
\* deduplicated records of everything fetched; with max_pages = 0 that is
\* the records of the initial page.
C20_FragmentCap ==
    LET docs == TestimonialDocs
        gets == TestimonialGets
        r == CardRecords
    IN  /\ Len(gets) <= 1 + t_max_pages
        /\ pc = "t_frag" => pages = Len(gets) - 1 /\ pages <= t_max_pages
        /\ pc = "t_save" =>
             /\ error = None
             /\ uniq = Pick(r, FirstTriple(r), 1)
             /\ HasLink(docs[Len(docs)]) =>
                  /\ Len(gets) = 1 + t_max_pages
                  /\ pages = t_max_pages + 1
             /\ t_max_pages = 0 =>
                  /\ Len(gets) = 1
                  /\ r = parse_testimonials_fragment(docs[1]).testimonials
        /\ ( /\ pc \notin {"t_init", "t_frag"}
             /\ Len(docs) = 1 + t_max_pages
             /\ \A k \in DOMAIN docs : HasLink(docs[k]) )
           => pc = "t_save"

\* a chain that never ends, every answer linking to the same fragment URL:
\* under a cap of MaxCap the crawler has returned after MaxCap fragment
\* requests, all to that URL
C20_Witness ==
    LET docs == TestimonialDocs
        gets == TestimonialGets
    IN  /\ pc = "t_save"
        /\ t_max_pages = MaxCap
        /\ Len(gets) = 1 + MaxCap
        /\ \A k \in DOMAIN docs : HasLink(docs[k])
        /\ \A n \in 2..Len(gets) : gets[n].url = gets[2].url
        /\ uniq # <<>>

====
